---------------------------- MODULE Spec2Model ----------------------------
(***************************************************************************)
(* Chained update system of the Infinity MP3 Downloader                    *)
(* (src/src/core/updater.py, duplicated in src/updater.py).                *)
(*                                                                         *)
(* run_full_update_routine -> check_app_update -> perform_app_update       *)
(*                         -> update_ytdlp -> update_component             *)
(*                                                                         *)
(* Every function is modelled step by step; the position of the single     *)
(* update worker is pc.  Network, subprocess and filesystem outcomes are   *)
(* chosen by the environment at the step that performs the operation.      *)
(* The filesystem follows Windows semantics (the code drives taskkill,     *)
(* cmd and .exe files): os.rename fails when the destination exists.       *)
(*                                                                         *)
(* Five more specifications share the module: FairSpec (the worker alone,  *)
(* scheduled fairly), FnSpec (compare_versions and the version-checking    *)
(* functions called on their own), UISpec (the Download, Update and Stop   *)
(* buttons of src/ui/app.py, the threads they start and the Downloader of  *)
(* src/core/downloader.py), ScriptSpec (the relaunch script that           *)
(* perform_app_update writes, run command by command) and SettingsSpec     *)
(* (SettingsManager of src/core/settings.py and its file).                 *)
(***************************************************************************)
EXTENDS Integers, Sequences, FiniteSets, TLC

VARIABLES
    pc,              \* position of the update worker
    entry,           \* which public function was called: "none", "routine", "ytdlp"
    skip_app_update, \* argument of run_full_update_routine
    app_version_url, \* argument of run_full_update_routine: "none", "empty", "url"
    force,           \* argument of update_ytdlp
    app_update,      \* local of run_full_update_routine: check_app_update's value
    pa_result,       \* value returned by perform_app_update
    file_exists,     \* local of update_ytdlp
    local_ver,       \* local of update_ytdlp
    remote_info,     \* local of update_ytdlp
    download_url,    \* URL requested by the function that is downloading
    response,        \* the streaming HTTP response being consumed
    downloaded,      \* bytes of the response written so far
    source_dir,      \* local of perform_app_update (archive case)
    fs,              \* the files the updater works on
    target_before,   \* fs["target"] when update_component was entered
    uc_ret,          \* value returned by update_component
    uy_ret,          \* value returned by update_ytdlp
    result,          \* UpdateResult returned by run_full_update_routine
    events,          \* the externally visible operations performed in this run
    stopped,         \* where the worker was when the user pressed Stop ("no" = not pressed)
    fn,              \* the version-checking function called on its own
    fn_in,           \* its inputs and what its environment answers
    fn_out,          \* what it returned
    is_downloading,  \* InfinityMP3Downloader.is_downloading
    is_updating,     \* InfinityMP3Downloader.is_updating
    download_btn,    \* state of the Download button
    update_btn,      \* state of the Update button
    stop_btn,        \* state of the Stop button
    after_queue,     \* callbacks scheduled with self.after(0, ...), oldest first
    workers,         \* the threads started by _start_update
    dl_pc,           \* where the thread of _start_download is ("none" = no thread)
    downloader,      \* InfinityMP3Downloader.downloader: "none" or "created"
    cancelled,       \* Downloader._cancelled
    process_handle,  \* Downloader._process is not None
    proc,            \* the yt-dlp subprocess: "none", "running", "terminated", "exited"
    lines,           \* lines of its output the worker has read
    dl_result,       \* what download() returned: "none", "success", "cancelled", "failed"
    stop_at,         \* where the download thread was when Stop arrived ("none" = not pressed)
    sc_kind,         \* the relaunch script that runs: "none", "archive", "raw"
    sc_ip,           \* index of its next command
    sc_trace,        \* the commands it has executed, in order
    sc_same_name,    \* the archive's executable has the file name of app_path
    host_running,    \* a process of the old build still holds app_path
    app_build,       \* what is at app_path: "old", "new", "none"
    copy_failed,     \* robocopy ended with errorlevel 8 or more
    script_file,     \* update.bat exists
    relaunched,      \* the build started with --post-update: "none", "old", "new"
    cache,           \* SettingsManager._cache (some = FALSE: None)
    settings_file,   \* SETTINGS_FILE: missing, unreadable, or a JSON object
    sm_ret           \* the last SettingsManager call and what it returned

vars == <<pc, entry, skip_app_update, app_version_url, force, app_update,
          pa_result, file_exists, local_ver, remote_info, download_url,
          response, downloaded, source_dir, fs, target_before, uc_ret,
          uy_ret, result, events, stopped, fn, fn_in, fn_out, is_downloading,
          is_updating, download_btn, update_btn, stop_btn, after_queue,
          workers, dl_pc, downloader, cancelled, process_handle, proc,
          lines, dl_result, stop_at, sc_kind, sc_ip, sc_trace, sc_same_name, host_running,
          app_build, copy_failed, script_file, relaunched, cache,
          settings_file, sm_ret>>

\* the state of the update worker
updaterVars == <<pc, entry, skip_app_update, app_version_url, force, app_update,
                 pa_result, file_exists, local_ver, remote_info, download_url,
                 response, downloaded, source_dir, fs, target_before, uc_ret,
                 uy_ret, result, events>>

\* the state of a version-checking function called on its own
fnVars == <<fn, fn_in, fn_out>>

\* the state of the download thread and of its Downloader
dlVars == <<dl_pc, downloader, cancelled, process_handle, proc, lines,
            dl_result, stop_at>>

\* the state of the window
uiVars == <<is_downloading, is_updating, download_btn, update_btn, stop_btn,
            after_queue, workers, dlVars>>

\* the state of the relaunch script's process
scriptVars == <<sc_kind, sc_ip, sc_trace, sc_same_name, host_running, app_build,
                copy_failed, script_file, relaunched>>

\* the state of SettingsManager and of its file
settingsVars == <<cache, settings_file, sm_ret>>

\* what a step of the update worker never touches
othersFrame == <<stopped, fnVars, uiVars, scriptVars, settingsVars>>

-----------------------------------------------------------------------------
(* Bounds and program constants *)

\* largest number of tokens in a generated version string
MaxTokens == 2

\* largest number of ".0" segments appended to a generated version string
MaxZeros == 2

\* largest number of full chunks in a modelled download body
MaxChunks == 2

\* largest number of update threads alive at once in the window model
MaxWorkers == 3

\* largest number of pending self.after(0, ...) callbacks in the window model
MaxPending == 3

\* lines of yt-dlp output a download thread reads before the output ends
MaxLines == 2

\* response.iter_content(chunk_size=8192)
ChunkSize == 8192

\* update_component: os.path.getsize(temp_path) < 1000
MinSize == 1000

\* perform_app_update: os.path.getsize(new_app_path) < 10000
AppMinSize == 10000

-----------------------------------------------------------------------------
(* Version strings are sequences of one-character strings *)

\* the element of a one-element set; {F(x) : x \in {e}} evaluates e once
\* before F uses it
Only(S) == CHOOSE x \in S : TRUE

Digits == {"0", "1", "2", "3", "4", "5", "6", "7", "8", "9"}

DigitVal(c) ==
    CASE c = "0" -> 0 [] c = "1" -> 1 [] c = "2" -> 2 [] c = "3" -> 3
      [] c = "4" -> 4 [] c = "5" -> 5 [] c = "6" -> 6 [] c = "7" -> 7
      [] c = "8" -> 8 [] c = "9" -> 9

IsSpace(c) == c = " "

RECURSIVE LStripSpace(_)
LStripSpace(s) ==
    IF s # <<>> /\ IsSpace(Head(s)) THEN LStripSpace(Tail(s)) ELSE s

RECURSIVE RStripSpace(_)
RStripSpace(s) ==
    IF s # <<>> /\ IsSpace(s[Len(s)])
    THEN RStripSpace(SubSeq(s, 1, Len(s) - 1))
    ELSE s

\* str.strip()
Strip(s) == RStripSpace(LStripSpace(s))

\* str.lstrip(c) for a one-character argument
RECURSIVE LStripChar(_, _)
LStripChar(s, c) ==
    IF s # <<>> /\ Head(s) = c THEN LStripChar(Tail(s), c) ELSE s

\* str.replace(a, b) for one-character arguments
Replace(s, a, b) == [i \in 1..Len(s) |-> IF s[i] = a THEN b ELSE s[i]]

\* str.split('.'): always at least one token, empty tokens kept
RECURSIVE Split(_)
Split(str) ==
    LET Tokens(s) ==
            IF \A i \in 1..Len(s) : s[i] # "."
            THEN <<s>>
            ELSE LET k == CHOOSE i \in 1..Len(s) :
                              s[i] = "." /\ \A j \in 1..(i - 1) : s[j] # "."
                 IN  <<SubSeq(s, 1, k - 1)>> \o Split(SubSeq(s, k + 1, Len(s)))
    IN  Only({Tokens(s) : s \in {str}})

RECURSIVE DigitsValue(_)
DigitsValue(s) ==
    IF s = <<>> THEN 0
    ELSE 10 * DigitsValue(SubSeq(s, 1, Len(s) - 1)) + DigitVal(s[Len(s)])

\* a token that is not a number sorts below every number
ParseIntPreRelease(part) ==
    LET t == Strip(part)
        u == IF t # <<>> /\ Head(t) = "+" THEN Tail(t) ELSE t
    IN  IF u # <<>> /\ \A i \in 1..Len(u) : u[i] \in Digits
        THEN DigitsValue(u)
        ELSE -1

\* int(part) inside try/except ValueError: surrounding whitespace and one
\* leading "+" are accepted, anything else that is not all digits gives 0
ParseInt(part) ==
    LET t == Strip(part)
        u == IF t # <<>> /\ Head(t) = "+" THEN Tail(t) ELSE t
    IN  IF u # <<>> /\ \A i \in 1..Len(u) : u[i] \in Digits
        THEN DigitsValue(u)
        ELSE 0

\* the prefix character is left in the first token
normalizeKeepPrefix(v) ==
    LET s == Strip(v)
    IN  Only({[i \in 1..Len(toks) |-> ParseInt(toks[i])] :
                 toks \in {Split(Replace(Replace(s, "-", "."), "_", "."))}})

\* normalize(v) of compare_versions: strip, drop leading "v"s then leading
\* "V"s, split on ".", "-" and "_", int() each token
normalize(v) ==
    LET s == LStripChar(LStripChar(Strip(v), "v"), "V")
    IN  Only({[i \in 1..Len(toks) |-> ParseInt(toks[i])] :
                 toks \in {Split(Replace(Replace(s, "-", "."), "_", "."))}})

Max(a, b) == IF a >= b THEN a ELSE b

\* the shorter list is not extended
PadNone(parts, n) == parts

\* local_parts.extend([0] * (max_len - len(local_parts)))
Pad(parts, n) == [i \in 1..n |-> IF i <= Len(parts) THEN parts[i] ELSE 0]

\* the loop returns "older" on l <= r
ComparePartsLe(lparts, rparts) ==
    IF lparts = <<>> \/ rparts = <<>> THEN 0
    ELSE IF Head(lparts) <= Head(rparts) THEN -1
    ELSE 1

\* for l, r in zip(local_parts, remote_parts): the first pair that differs
\* decides; zip stops at the shorter list
RECURSIVE CompareParts(_, _)
CompareParts(lparts, rparts) ==
    LET Cmp(l, r) ==
            IF l = <<>> \/ r = <<>> THEN 0
            ELSE IF Head(l) < Head(r) THEN -1
            ELSE IF Head(l) > Head(r) THEN 1
            ELSE CompareParts(Tail(l), Tail(r))
    IN  Only({Cmp(l, r) : l \in {lparts}, r \in {rparts}})

\* code points of the characters the modelled strings are made of
CharOrd(c) ==
    CASE c = " " -> 32 [] c = "+" -> 43 [] c = "-" -> 45 [] c = "." -> 46
      [] c \in Digits -> 48 + DigitVal(c)
      [] c = "V" -> 86 [] c = "_" -> 95 [] c = "b" -> 98 [] c = "v" -> 118

\* s < t for two strings, character by character
RECURSIVE StrLess(_, _)
StrLess(s, t) ==
    IF t = <<>> THEN FALSE
    ELSE IF s = <<>> THEN TRUE
    ELSE IF Head(s) # Head(t) THEN CharOrd(Head(s)) < CharOrd(Head(t))
    ELSE StrLess(Tail(s), Tail(t))

\* the versions are compared as strings
compare_versionsLexical(local, remote) ==
    IF local = remote THEN 0
    ELSE IF StrLess(local, remote) THEN -1 ELSE 1

\* compare_versions(local, remote): -1 older, 0 equal, 1 newer.  No statement
\* of the try block raises for two strings (int() raises only ValueError,
\* which normalize handles), so the string comparison of the outer handler is
\* never reached
compare_versions(local, remote) ==
    Only({LET n == Max(Len(lp), Len(rp))
          IN  CompareParts(Pad(lp, n), Pad(rp, n)) :
             lp \in {normalize(local)}, rp \in {normalize(remote)}})


-----------------------------------------------------------------------------
(* Data classes *)

\* Optional[VersionInfo]: VersionInfo(version, download_url) or None;
\* release_notes is never read back
VersionInfo(version, url) ==
    [some |-> TRUE, version |-> version, download_url |-> url]
NoneInfo == [some |-> FALSE, version |-> <<>>, download_url |-> ""]

\* Variant: the descriptor is only tested against None.
TruthyNotNone(info) == info.some

\* VersionInfo.__bool__, applied to an Optional[VersionInfo]
Truthy(info) ==
    /\ info.some
    /\ info.version # <<>>
    /\ info.download_url # ""

\* Optional[str]: a string or None
Some(s) == [some |-> TRUE, v |-> s]
NoneStr == [some |-> FALSE, v |-> <<>>]

\* truth value of an Optional[str]
TruthyStr(s) == s.some /\ s.v # <<>>

\* UpdateResult(success, message, requires_restart); message is user text
UpdateResult(success, restart) ==
    [success |-> success, requires_restart |-> restart, returned |-> TRUE]

NoResult == [success |-> FALSE, requires_restart |-> FALSE, returned |-> FALSE]

-----------------------------------------------------------------------------
(* Files *)

Paths == {"target", "temp", "old",
          "download_temp", "extract_dir", "batch", "new_app", "app"}

File(id, size) == [id |-> id, size |-> size]
NoFile == File("none", 0)
Installed == File("installed", MinSize + ChunkSize)
Stale == File("stale", 1)
AppExe == File("app_exe", AppMinSize + ChunkSize)

\* os.path.exists
Exists(f, p) == f[p] # NoFile

\* os.remove / shutil.rmtree that succeeded
Removed(f, p) == [f EXCEPT ![p] = NoFile]

\* os.rename(src, dst) that succeeded
\* Variant: the rename leaves the source behind, as a copy would.
RenamedCopy(f, src, dst) == [f EXCEPT ![dst] = f[src]]

Renamed(f, src, dst) == [f EXCEPT ![dst] = f[src], ![src] = NoFile]

\* os.rename fails on Windows when dst exists or src is missing
CanRename(f, src, dst) == Exists(f, src) /\ ~Exists(f, dst)

-----------------------------------------------------------------------------
(* What the environment may answer *)

v1_9_0  == <<"1", ".", "9", ".", "0">>
v1_10_0 == <<"1", ".", "1", "0", ".", "0">>
v1_10   == <<"v", "1", ".", "1", "0">>
v3_3_1  == <<"3", ".", "3", ".", "1">>
v3_3_0  == <<"3", ".", "3", ".", "0">>
v3_10   == <<"3", ".", "1", "0">>

\* APP_VERSION
APP_VERSION == v3_3_1

DEFAULT_URL == "latest_download_url"

\* stdout of "yt-dlp.exe --version"
LocalStdouts == {<<>>, <<" ">>, v1_9_0 \o <<" ">>, v1_10_0 \o <<" ">>, v1_10}

\* "tag_name" of the release document
ToolTags == {<<>>, v1_9_0, <<" ">> \o v1_10_0}

\* browser_download_url of the asset named yt-dlp.exe ("" = not listed)
ToolAssets == {"", "asset_url"}

\* "version" and "download_url" of version.json
AppRemoteVersions == {<<>>, v3_3_0, v3_3_1, v3_10}
AppRemoteUrls == {"", "app_url"}

\* sizes of the bodies a tool download may deliver
BodySizes ==
    {0, MinSize - 1, MinSize, MinSize + 1}
        \cup {k * ChunkSize + 1 : k \in 1..MaxChunks}

NoResponse == [size |-> 0, kind |-> "none", tree |-> <<>>]

ToolResponses == {[size |-> n, kind |-> "raw", tree |-> <<>>] : n \in BodySizes}

\* entries of an archive in os.walk order
Entry(dir, name) == [dir |-> dir, name |-> name]
Archives ==
    { <<Entry("root", "data")>>,
      <<Entry("root", "other_exe"), Entry("sub", "infinity_exe")>>,
      <<Entry("root", "data"), Entry("sub", "other_exe")>> }

AppResponses ==
    {[size |-> n, kind |-> "raw", tree |-> <<>>] :
        n \in {0, AppMinSize - 1, AppMinSize, ChunkSize * MaxChunks + 1}}
    \cup {[size |-> MinSize, kind |-> "zip", tree |-> t] : t \in Archives}

\* the next chunk of iter_content(chunk_size=8192)
NextChunk(resp, done) ==
    IF resp.size - done >= ChunkSize THEN ChunkSize ELSE resp.size - done

\* what running "yt-dlp.exe --version" may give
ProbeOutcomes ==
    {[kind |-> k, returncode |-> 1, stdout |-> <<>>] :
        k \in {"timeout", "not_found", "error"}}
    \cup {[kind |-> "exit", returncode |-> 1, stdout |-> v1_9_0]}
    \cup {[kind |-> "exit", returncode |-> 0, stdout |-> o] : o \in LocalStdouts}

\* what the GET of the release document may give
ToolMetaOutcomes ==
    {[kind |-> k, tag |-> <<>>, asset |-> ""] :
        k \in {"network_error", "timeout", "rate_limit", "http_error",
                "bad_json"}}
    \cup {[kind |-> "ok", tag |-> t, asset |-> a] :
            t \in ToolTags, a \in ToolAssets}

\* what the GET of version.json may give
AppMetaOutcomes ==
    {[kind |-> k, version |-> <<>>, url |-> ""] :
        k \in {"network_error", "timeout", "rate_limit", "http_error",
                "bad_json"}}
    \cup {[kind |-> "ok", version |-> v, url |-> u] :
            v \in AppRemoteVersions, u \in AppRemoteUrls}

-----------------------------------------------------------------------------
(* Version checking *)

\* the exception that running the binary raises inside the try
\* ("none": subprocess.run returns)
ProbeException(kind) ==
    CASE kind = "timeout" -> "TimeoutExpired"
      [] kind = "not_found" -> "FileNotFoundError"
      [] kind = "error" -> "OSError"
      [] OTHER -> "none"

\* Variant: the probe has no catch-all handler.
ProbeExceptNamedOnly(exc) == exc \in {"TimeoutExpired", "FileNotFoundError"}

\* except subprocess.TimeoutExpired / FileNotFoundError / Exception
ProbeExcept(exc) == exc \in {"TimeoutExpired", "FileNotFoundError", "OSError"}

\* an exception leaves get_local_ytdlp_version
ProbeRaises(exists, out) ==
    /\ exists
    /\ ProbeException(out.kind) # "none"
    /\ ~ProbeExcept(ProbeException(out.kind))

\* Variant: the binary is run before its existence is checked.
ProbeSpawnsAlways(exists) == 1

\* how many processes get_local_ytdlp_version starts: subprocess.run is
\* reached once, and only past the existence check
ProbeSpawns(exists) == IF exists THEN 1 ELSE 0

\* Variant: the exit code is not looked at.
get_local_ytdlp_versionAnyExit(exists, out) ==
    IF ~exists THEN NoneStr
    ELSE IF out.kind # "exit" THEN NoneStr
    ELSE IF Strip(out.stdout) # <<>> THEN Some(Strip(out.stdout))
         ELSE NoneStr

get_local_ytdlp_version(exists, out) ==
    IF ~exists THEN NoneStr
    ELSE IF out.kind # "exit" THEN NoneStr
    ELSE IF out.returncode = 0
         THEN (IF Strip(out.stdout) # <<>> THEN Some(Strip(out.stdout))
               ELSE NoneStr)
         ELSE NoneStr

\* the exception raised inside the try of get_remote_ytdlp_version; a 403
\* with no quota left returns None before raise_for_status
ToolMetaException(kind) ==
    CASE kind \in {"network_error", "timeout", "http_error"} -> "RequestException"
      [] kind = "bad_json" -> "ValueError"
      [] OTHER -> "none"

\* the exception raised inside the try of check_app_update
AppMetaException(kind) ==
    CASE kind \in {"network_error", "timeout", "rate_limit", "http_error"}
             -> "RequestException"
      [] kind = "bad_json" -> "ValueError"
      [] OTHER -> "none"

\* Variant: the resolvers catch network errors only.
ResolverExceptRequestOnly(exc) == exc = "RequestException"

\* except requests.RequestException / except Exception of the resolvers
ResolverExcept(exc) == exc \in {"RequestException", "ValueError"}

\* an exception leaves get_remote_ytdlp_version
RemoteRaises(out) ==
    /\ ToolMetaException(out.kind) # "none"
    /\ ~ResolverExcept(ToolMetaException(out.kind))

\* an exception leaves check_app_update
AppRaises(out) ==
    /\ AppMetaException(out.kind) # "none"
    /\ ~ResolverExcept(AppMetaException(out.kind))

get_remote_ytdlp_version(out) ==
    IF out.kind # "ok" THEN NoneInfo
    ELSE VersionInfo(Strip(out.tag),
                     IF out.asset # "" THEN out.asset ELSE "fallback_url")

\* check_ytdlp_update, first component of its result: lv and ri are what
\* get_local_ytdlp_version and get_remote_ytdlp_version returned; the test
\* on the descriptor is "is None", the test on the local version is falsiness
check_ytdlp_update(lv, ri) ==
    IF ~ri.some THEN FALSE
    ELSE IF ~TruthyStr(lv) THEN TRUE
    ELSE compare_versions(lv.v, ri.version) < 0

check_app_update(current_version, out) ==
    IF out.kind # "ok" THEN NoneInfo
    ELSE IF out.version = <<>> THEN NoneInfo
    ELSE IF compare_versions(current_version, out.version) < 0
         THEN VersionInfo(out.version, out.url)
         ELSE NoneInfo

-----------------------------------------------------------------------------
(* Decisions *)

\* Variants of the decision with one rule changed, as a slip in that rule
\* would change it.

\* rule 3 downloads blindly when the remote version is unavailable
UpdateDecisionBlind(fe, f, lv, ri) ==
    IF ~fe THEN [needs_update |-> TRUE, download_url |-> DEFAULT_URL]
    ELSE IF f THEN [needs_update |-> TRUE, download_url |-> DEFAULT_URL]
    ELSE IF ~Truthy(ri) /\ fe
         THEN [needs_update |-> TRUE, download_url |-> DEFAULT_URL]
    ELSE IF ~TruthyStr(lv) /\ fe /\ ~f
         THEN [needs_update |-> FALSE, download_url |-> DEFAULT_URL]
    ELSE IF TruthyStr(lv) /\ Truthy(ri)
         THEN (IF compare_versions(lv.v, ri.version) < 0
               THEN [needs_update |-> TRUE, download_url |-> ri.download_url]
               ELSE [needs_update |-> FALSE, download_url |-> DEFAULT_URL])
    ELSE [needs_update |-> FALSE, download_url |-> DEFAULT_URL]

\* rule 3 is missing and needs_update starts as True
UpdateDecisionDefaultTrue(fe, f, lv, ri) ==
    IF ~fe THEN [needs_update |-> TRUE, download_url |-> DEFAULT_URL]
    ELSE IF f THEN [needs_update |-> TRUE, download_url |-> DEFAULT_URL]
    ELSE IF ~TruthyStr(lv) /\ fe /\ ~f /\ Truthy(ri)
         THEN [needs_update |-> FALSE, download_url |-> DEFAULT_URL]
    ELSE IF TruthyStr(lv) /\ Truthy(ri)
         THEN (IF compare_versions(lv.v, ri.version) < 0
               THEN [needs_update |-> TRUE, download_url |-> ri.download_url]
               ELSE [needs_update |-> FALSE, download_url |-> DEFAULT_URL])
    ELSE [needs_update |-> TRUE, download_url |-> DEFAULT_URL]

\* the remote check is made before the check for a missing file
UpdateDecisionRemoteFirst(fe, f, lv, ri) ==
    IF ~Truthy(ri) THEN [needs_update |-> FALSE, download_url |-> DEFAULT_URL]
    ELSE IF ~fe THEN [needs_update |-> TRUE, download_url |-> DEFAULT_URL]
    ELSE IF f THEN [needs_update |-> TRUE, download_url |-> DEFAULT_URL]
    ELSE IF ~TruthyStr(lv) /\ fe /\ ~f
         THEN [needs_update |-> FALSE, download_url |-> DEFAULT_URL]
    ELSE IF TruthyStr(lv) /\ Truthy(ri)
         THEN (IF compare_versions(lv.v, ri.version) < 0
               THEN [needs_update |-> TRUE, download_url |-> ri.download_url]
               ELSE [needs_update |-> FALSE, download_url |-> DEFAULT_URL])
    ELSE [needs_update |-> FALSE, download_url |-> DEFAULT_URL]

\* rule 5 tests "comparison <= 0"
UpdateDecisionLe(fe, f, lv, ri) ==
    IF ~fe THEN [needs_update |-> TRUE, download_url |-> DEFAULT_URL]
    ELSE IF f THEN [needs_update |-> TRUE, download_url |-> DEFAULT_URL]
    ELSE IF ~Truthy(ri) /\ fe
         THEN [needs_update |-> FALSE, download_url |-> DEFAULT_URL]
    ELSE IF ~TruthyStr(lv) /\ fe /\ ~f
         THEN [needs_update |-> FALSE, download_url |-> DEFAULT_URL]
    ELSE IF TruthyStr(lv) /\ Truthy(ri)
         THEN (IF compare_versions(lv.v, ri.version) <= 0
               THEN [needs_update |-> TRUE, download_url |-> ri.download_url]
               ELSE [needs_update |-> FALSE, download_url |-> DEFAULT_URL])
    ELSE [needs_update |-> FALSE, download_url |-> DEFAULT_URL]

\* rule 4 downloads when the local version is unknown
UpdateDecisionLocalUnknown(fe, f, lv, ri) ==
    IF ~fe THEN [needs_update |-> TRUE, download_url |-> DEFAULT_URL]
    ELSE IF f THEN [needs_update |-> TRUE, download_url |-> DEFAULT_URL]
    ELSE IF ~Truthy(ri) /\ fe
         THEN [needs_update |-> FALSE, download_url |-> DEFAULT_URL]
    ELSE IF ~TruthyStr(lv) /\ fe /\ ~f
         THEN [needs_update |-> TRUE, download_url |-> ri.download_url]
    ELSE IF TruthyStr(lv) /\ Truthy(ri)
         THEN (IF compare_versions(lv.v, ri.version) < 0
               THEN [needs_update |-> TRUE, download_url |-> ri.download_url]
               ELSE [needs_update |-> FALSE, download_url |-> DEFAULT_URL])
    ELSE [needs_update |-> FALSE, download_url |-> DEFAULT_URL]

\* update_ytdlp: "Decide if update is needed"
\* every rule that downloads takes the descriptor's URL when there is one
UpdateDecisionDescriptorUrl(fe, f, lv, ri) ==
    LET url == IF Truthy(ri) THEN ri.download_url ELSE DEFAULT_URL
    IN  IF ~fe THEN [needs_update |-> TRUE, download_url |-> url]
        ELSE IF f THEN [needs_update |-> TRUE, download_url |-> url]
        ELSE IF ~Truthy(ri) /\ fe
             THEN [needs_update |-> FALSE, download_url |-> DEFAULT_URL]
        ELSE IF ~TruthyStr(lv) /\ fe /\ ~f
             THEN [needs_update |-> FALSE, download_url |-> DEFAULT_URL]
        ELSE IF TruthyStr(lv) /\ Truthy(ri)
             THEN (IF compare_versions(lv.v, ri.version) < 0
                   THEN [needs_update |-> TRUE, download_url |-> ri.download_url]
                   ELSE [needs_update |-> FALSE, download_url |-> DEFAULT_URL])
        ELSE [needs_update |-> FALSE, download_url |-> DEFAULT_URL]

\* the force rule is tested after the two rules that keep the current file
UpdateDecisionForceLast(fe, f, lv, ri) ==
    IF ~fe THEN [needs_update |-> TRUE, download_url |-> DEFAULT_URL]
    ELSE IF ~Truthy(ri) /\ fe
         THEN [needs_update |-> FALSE, download_url |-> DEFAULT_URL]
    ELSE IF ~TruthyStr(lv) /\ fe
         THEN [needs_update |-> FALSE, download_url |-> DEFAULT_URL]
    ELSE IF f THEN [needs_update |-> TRUE, download_url |-> DEFAULT_URL]
    ELSE IF TruthyStr(lv) /\ Truthy(ri)
         THEN (IF compare_versions(lv.v, ri.version) < 0
               THEN [needs_update |-> TRUE, download_url |-> ri.download_url]
               ELSE [needs_update |-> FALSE, download_url |-> DEFAULT_URL])
    ELSE [needs_update |-> FALSE, download_url |-> DEFAULT_URL]

UpdateDecision(fe, f, lv, ri) ==
    IF ~fe THEN [needs_update |-> TRUE, download_url |-> DEFAULT_URL]
    ELSE IF f THEN [needs_update |-> TRUE, download_url |-> DEFAULT_URL]
    ELSE IF ~Truthy(ri) /\ fe
         THEN [needs_update |-> FALSE, download_url |-> DEFAULT_URL]
    ELSE IF ~TruthyStr(lv) /\ fe /\ ~f
         THEN [needs_update |-> FALSE, download_url |-> DEFAULT_URL]
    ELSE IF TruthyStr(lv) /\ Truthy(ri)
         THEN (IF compare_versions(lv.v, ri.version) < 0
               THEN [needs_update |-> TRUE, download_url |-> ri.download_url]
               ELSE [needs_update |-> FALSE, download_url |-> DEFAULT_URL])
    ELSE [needs_update |-> FALSE, download_url |-> DEFAULT_URL]

\* the skip flag is not consulted
AppStageEnabledIgnoreSkip(skip, url) == url = "url"

\* run_full_update_routine: "if not skip_app_update and app_version_url"
AppStageEnabled(skip, url) == ~skip /\ url = "url"

\* the routine never stops after the app stage
AppStageTerminalNever(res) == FALSE

\* the routine stops after the app stage whatever its result
AppStageTerminalAlways(res) == TRUE

\* run_full_update_routine: "if result.success and result.requires_restart"
AppStageTerminal(res) == res.success /\ res.requires_restart

\* the validation rejects "<= 1000"
SizeValidStrict(n) == ~(n <= MinSize)

\* update_component: the size validation passes
SizeValid(n) == ~(n < MinSize)

\* perform_app_update: first matching executable in os.walk order
FirstIndex(tree, names) ==
    IF \E i \in 1..Len(tree) : tree[i].name \in names
    THEN CHOOSE i \in 1..Len(tree) :
            /\ tree[i].name \in names
            /\ \A j \in 1..(i - 1) : tree[j].name \notin names
    ELSE 0

\* Variant: the first executable found is taken, whatever its name.
FindExeAnyFirst(tree) == FirstIndex(tree, {"infinity_exe", "other_exe"})

\* the two os.walk loops: an .exe whose name contains "infinity" first, any
\* .exe otherwise; 0 = none found
FindExe(tree) ==
    IF FirstIndex(tree, {"infinity_exe"}) # 0
    THEN FirstIndex(tree, {"infinity_exe"})
    ELSE FirstIndex(tree, {"infinity_exe", "other_exe"})

\* Variant: the two stages in the other order.
NextStageToolFirst(at, skip, url) ==
    CASE at = "entry" -> "tool_stage"
      [] at = "tool" -> (IF AppStageEnabled(skip, url) THEN "check_app" ELSE "done")
      [] OTHER -> "done"

\* run_full_update_routine: where the routine goes from its entry, from an
\* app stage that did not end the run, and from the tool stage
NextStage(at, skip, url) ==
    CASE at = "entry" ->
             (IF AppStageEnabled(skip, url) THEN "check_app" ELSE "tool_stage")
      [] at = "app" -> "tool_stage"
      [] OTHER -> "done"

\* Variant: the script is launched before it is written.
NextAppStepLaunchFirst(at, kind) ==
    CASE at = "pa_chunk" -> (IF kind = "zip" THEN "pa_extract" ELSE "pa_stage")
      [] at \in {"pa_extract", "pa_stage"} -> "pa_launch"
      [] at = "pa_launch" -> "pa_write"
      [] at = "pa_write" -> "app_result"

\* perform_app_update: the statement that follows a step that did not raise:
\* the download, then the archive or the raw branch, then the script is
\* written, then launched, then the result is returned
NextAppStep(at, kind) ==
    CASE at = "pa_chunk" -> (IF kind = "zip" THEN "pa_extract" ELSE "pa_stage")
      [] at \in {"pa_extract", "pa_stage"} -> "pa_write"
      [] at = "pa_write" -> "pa_launch"
      [] at = "pa_launch" -> "app_result"

\* Variant: the handler catches network errors only.
ExceptRequestOnly(exc) == exc = "RequestException"

\* "except Exception as e" of update_component and perform_app_update: every
\* exception class the body can raise derives from Exception
ExceptException(exc) ==
    exc \in {"RequestException", "OSError", "UpdateError", "BadZipFile"}

\* where control goes when exc is raised inside a try whose handler is at
\* handler; "raised" means the exception leaves the function
Throw(handler, exc) == IF ExceptException(exc) THEN handler ELSE "raised"

\* Variant: a stale .old is left where it is.
RemoveStaleOldSkipped(f) == f

\* update_component: if os.path.exists(old_path): os.remove(old_path)
RemoveStaleOld(f) == Removed(f, "old")

\* Variant: the failure handler removes nothing.
CleanupTempSkipped(f) == f

\* update_component's handler: if os.path.exists(temp_path): os.remove(temp_path)
CleanupTemp(f) == Removed(f, "temp")

\* the environment faults a step can meet, as recorded in events
FsFaults ==
    {"fault_makedirs", "fault_open", "fault_write", "fault_remove_locked",
     "fault_remove_other", "fault_kill_remove", "fault_stale_remove",
     "fault_rename_aside", "fault_final_rename", "fault_cleanup"}

NetFaults == {"fault_request", "fault_stream"}

-----------------------------------------------------------------------------
(* Initial state *)

\* no version-checking function has been called on its own
FnIdle ==
    /\ fn = "none"
    /\ fn_in = [kind |-> "none"]
    /\ fn_out = [returned |-> FALSE]

\* no relaunch script has been started
ScriptIdle ==
    /\ sc_kind = "none"
    /\ sc_ip = 0
    /\ sc_trace = <<>>
    /\ sc_same_name = TRUE
    /\ host_running = TRUE
    /\ app_build = "old"
    /\ copy_failed = FALSE
    /\ script_file = FALSE
    /\ relaunched = "none"

\* InfinityMP3Downloader.__init__ and _build_ui
\* _cache = None
NoCache == [some |-> FALSE, download_path |-> "", first_run_complete |-> FALSE]

\* a settings dictionary with both keys
Settings(path, complete) ==
    [some |-> TRUE, download_path |-> path, first_run_complete |-> complete]

\* DEFAULT_SETTINGS
DEFAULT_SETTINGS == Settings("", FALSE)

\* a file that holds no JSON object
NoContent == [keys |-> {}, download_path |-> "", first_run_complete |-> FALSE]

\* no settings file yet, nothing cached, no call made
SettingsIdle ==
    /\ cache = NoCache
    /\ settings_file = [state |-> "missing", content |-> NoContent]
    /\ sm_ret = [op |-> "none", ok |-> TRUE]

UIIdle ==
    /\ is_downloading = FALSE
    /\ is_updating = FALSE
    /\ download_btn = "normal"
    /\ update_btn = "normal"
    /\ stop_btn = "disabled"
    /\ after_queue = <<>>
    /\ workers = [k \in 1..MaxWorkers |-> "none"]
    /\ dl_pc = "none"
    /\ downloader = "none"
    /\ cancelled = FALSE
    /\ process_handle = FALSE
    /\ proc = "none"
    /\ lines = 0
    /\ dl_result = "none"
    /\ stop_at = "none"

Init ==
    /\ pc = "idle"
    /\ entry = "none"
    /\ skip_app_update = FALSE
    /\ app_version_url = "none"
    /\ force = FALSE
    /\ app_update = NoneInfo
    /\ pa_result = NoResult
    /\ file_exists = FALSE
    /\ local_ver = NoneStr
    /\ remote_info = NoneInfo
    /\ download_url = ""
    /\ response = NoResponse
    /\ downloaded = 0
    /\ source_dir = "none"
    /\ \E t \in {NoFile, Installed}, o \in {NoFile, Stale}, n \in {NoFile, Stale} :
          fs = [p \in Paths |->
                  CASE p = "target" -> t
                    [] p = "old" -> o
                    [] p = "temp" -> n
                    [] p = "app" -> AppExe
                    [] OTHER -> NoFile]
    /\ target_before = NoFile
    /\ uc_ret = FALSE
    /\ uy_ret = FALSE
    /\ result = NoResult
    /\ events = {}
    /\ stopped = "no"
    /\ FnIdle
    /\ UIIdle
    /\ ScriptIdle
    /\ SettingsIdle

Emit(e) == events' = events \cup {e}

-----------------------------------------------------------------------------
(* run_full_update_routine *)

\* the routine is called; update_ytdlp is later called with force=False
RunFullUpdateRoutine ==
    /\ pc = "idle"
    /\ \E skip \in BOOLEAN, url \in {"none", "empty", "url"} :
          /\ skip_app_update' = skip
          /\ app_version_url' = url
          /\ pc' = NextStage("entry", skip, url)
    /\ entry' = "routine"
    /\ force' = FALSE
    /\ UNCHANGED <<app_update, pa_result, file_exists, local_ver, remote_info,
                   download_url, response, downloaded, source_dir, fs,
                   target_before, uc_ret, uy_ret, result, events>>
    /\ UNCHANGED othersFrame

\* app_update = check_app_update(...); if app_update: perform_app_update(...)
CheckAppUpdate ==
    /\ pc = "check_app"
    /\ \E out \in AppMetaOutcomes :
          LET info == check_app_update(APP_VERSION, out)
          IN  /\ app_update' = info
              /\ IF AppRaises(out)
                 THEN /\ pc' = "raised"
                      /\ download_url' = download_url
                      /\ Emit("app_meta_request")
                 ELSE IF Truthy(info)
                 THEN /\ pc' = "pa_request"
                      /\ download_url' = info.download_url
                      /\ events' = events \cup {"app_meta_request", "perform_app_update"}
                 ELSE /\ pc' = NextStage("app", skip_app_update, app_version_url)
                      /\ download_url' = download_url
                      /\ Emit("app_meta_request")
    /\ UNCHANGED <<entry, skip_app_update, app_version_url, force, pa_result,
                   file_exists, local_ver, remote_info, response, downloaded,
                   source_dir, fs, target_before, uc_ret, uy_ret, result>>
    /\ UNCHANGED othersFrame

\* perform_app_update returned: stop on success, else fall through
AppStageResult ==
    /\ pc = "app_result"
    /\ IF AppStageTerminal(pa_result)
       THEN /\ result' = UpdateResult(pa_result.success, pa_result.requires_restart)
            /\ pc' = "done"
       ELSE /\ result' = result
            /\ pc' = NextStage("app", skip_app_update, app_version_url)
    /\ UNCHANGED <<entry, skip_app_update, app_version_url, force, app_update,
                   pa_result, file_exists, local_ver, remote_info, download_url,
                   response, downloaded, source_dir, fs, target_before, uc_ret,
                   uy_ret, events>>
    /\ UNCHANGED othersFrame

\* success = update_ytdlp(...); return UpdateResult(success, ..., False)
RoutineReturn ==
    /\ pc = "uy_return"
    /\ entry = "routine"
    /\ result' = UpdateResult(uy_ret, FALSE)
    /\ pc' = NextStage("tool", skip_app_update, app_version_url)
    /\ UNCHANGED <<entry, skip_app_update, app_version_url, force, app_update,
                   pa_result, file_exists, local_ver, remote_info, download_url,
                   response, downloaded, source_dir, fs, target_before, uc_ret,
                   uy_ret, events>>
    /\ UNCHANGED othersFrame

-----------------------------------------------------------------------------
(* update_ytdlp *)

\* update_ytdlp is called on its own, with either value of force
UpdateYtdlpCall ==
    /\ pc = "idle"
    /\ entry' = "ytdlp"
    /\ \E f \in BOOLEAN : force' = f
    /\ pc' = "tool_stage"
    /\ UNCHANGED <<skip_app_update, app_version_url, app_update, pa_result,
                   file_exists, local_ver, remote_info, download_url, response,
                   downloaded, source_dir, fs, target_before, uc_ret, uy_ret,
                   result, events>>
    /\ UNCHANGED othersFrame

\* file_exists = os.path.exists(...); local_ver = get_local_ytdlp_version(...)
UY_Probe ==
    /\ pc = "tool_stage"
    /\ file_exists' = Exists(fs, "target")
    /\ \E out \in ProbeOutcomes :
          /\ local_ver' = get_local_ytdlp_version(Exists(fs, "target"), out)
          /\ pc' = IF ProbeRaises(Exists(fs, "target"), out)
                   THEN "raised" ELSE "uy_remote"
    /\ events' = events \cup {"local_probe"}
                   \cup (IF ProbeSpawns(Exists(fs, "target")) > 0
                         THEN {"probe_spawn"} ELSE {})
    /\ UNCHANGED <<entry, skip_app_update, app_version_url, force, app_update,
                   pa_result, remote_info, download_url, response, downloaded,
                   source_dir, fs, target_before, uc_ret, uy_ret, result>>
    /\ UNCHANGED othersFrame

\* remote_info = get_remote_ytdlp_version()
UY_Remote ==
    /\ pc = "uy_remote"
    /\ \E out \in ToolMetaOutcomes :
          /\ remote_info' = get_remote_ytdlp_version(out)
          /\ pc' = IF RemoteRaises(out) THEN "raised" ELSE "uy_decide"
    /\ Emit("tool_meta_request")
    /\ UNCHANGED <<entry, skip_app_update, app_version_url, force, app_update,
                   pa_result, file_exists, local_ver, download_url, response,
                   downloaded, source_dir, fs, target_before, uc_ret, uy_ret,
                   result>>
    /\ UNCHANGED othersFrame

\* the decision; either return True or call update_component
UY_Decide ==
    /\ pc = "uy_decide"
    /\ LET d == UpdateDecision(file_exists, force, local_ver, remote_info)
       IN  IF d.needs_update
           THEN /\ pc' = "uc_request"
                /\ download_url' = d.download_url
                /\ target_before' = fs["target"]
                /\ Emit("update_component")
                /\ uy_ret' = uy_ret
           ELSE /\ pc' = "uy_return"
                /\ uy_ret' = TRUE
                /\ UNCHANGED <<download_url, target_before, events>>
    /\ UNCHANGED <<entry, skip_app_update, app_version_url, force, app_update,
                   pa_result, file_exists, local_ver, remote_info, response,
                   downloaded, source_dir, fs, uc_ret, result>>
    /\ UNCHANGED othersFrame

\* update_ytdlp returns to its direct caller
YtdlpReturn ==
    /\ pc = "uy_return"
    /\ entry = "ytdlp"
    /\ pc' = "done"
    /\ UNCHANGED <<entry, skip_app_update, app_version_url, force, app_update,
                   pa_result, file_exists, local_ver, remote_info, download_url,
                   response, downloaded, source_dir, fs, target_before, uc_ret,
                   uy_ret, result, events>>
    /\ UNCHANGED othersFrame

-----------------------------------------------------------------------------
(* update_component *)

ucFrame == <<entry, skip_app_update, app_version_url, force, app_update,
             pa_result, file_exists, local_ver, remote_info, download_url,
             source_dir, target_before, result, othersFrame>>

\* os.makedirs; requests.get(download_url, stream=True); raise_for_status
UC_Request ==
    /\ pc = "uc_request"
    /\ \/ /\ pc' = Throw("uc_fail", "OSError")     \* makedirs raised
          /\ Emit("fault_makedirs")
          /\ response' = response
       \/ \E r \in ToolResponses \cup {NoResponse} :
             /\ response' = r
             /\ IF r = NoResponse
                THEN /\ pc' = Throw("uc_fail", "RequestException")
                     /\ events' = events \cup {"tool_download_request",
                                               "fault_request"}
                ELSE /\ pc' = "uc_open"
                     /\ Emit("tool_download_request")
    /\ UNCHANGED <<ucFrame, downloaded, fs, uc_ret, uy_ret>>

\* downloaded = 0; open(temp_path, 'wb')
UC_Open ==
    /\ pc = "uc_open"
    /\ downloaded' = 0
    /\ \/ /\ fs' = [fs EXCEPT !["temp"] = File("tool_payload", 0)]
          /\ pc' = "uc_chunk"
          /\ events' = events
       \/ /\ fs' = fs
          /\ pc' = Throw("uc_fail", "OSError")
          /\ Emit("fault_open")
    /\ UNCHANGED <<ucFrame, response, uc_ret, uy_ret>>

\* one iteration of the chunk loop: f.write(chunk); downloaded += len(chunk)
UC_Chunk ==
    /\ pc = "uc_chunk"
    /\ downloaded < response.size
    /\ \/ LET n == NextChunk(response, downloaded)
          IN  /\ downloaded' = downloaded + n
              /\ fs' = [fs EXCEPT !["temp"] =
                           File("tool_payload", fs["temp"].size + n)]
              /\ pc' = "uc_chunk"
              /\ events' = events
       \/ /\ pc' = Throw("uc_fail", "RequestException")   \* the stream raised
          /\ Emit("fault_stream")
          /\ UNCHANGED <<downloaded, fs>>
       \/ /\ pc' = Throw("uc_fail", "OSError")            \* f.write raised
          /\ Emit("fault_write")
          /\ UNCHANGED <<downloaded, fs>>
    /\ UNCHANGED <<ucFrame, response, uc_ret, uy_ret>>

\* the stream is exhausted: if os.path.getsize(temp_path) < 1000: raise
UC_Validate ==
    /\ pc = "uc_chunk"
    /\ downloaded = response.size
    /\ IF SizeValid(fs["temp"].size)
       THEN /\ pc' = "uc_swap"
            /\ events' = events \cup {"tool_download_complete", "size_validated"}
       ELSE /\ pc' = Throw("uc_fail", "UpdateError")
            /\ Emit("tool_download_complete")
    /\ UNCHANGED <<ucFrame, response, downloaded, fs, uc_ret, uy_ret>>

\* if os.path.exists(target_path): os.remove(target_path)
UC_RemoveOld ==
    /\ pc = "uc_swap"
    /\ IF Exists(fs, "target")
       THEN \/ /\ fs' = Removed(fs, "target")
               /\ pc' = "uc_install"
               /\ events' = events
            \/ /\ fs' = fs                         \* PermissionError
               /\ pc' = "uc_kill"
               /\ Emit("fault_remove_locked")
            \/ /\ fs' = fs                         \* any other OSError
               /\ pc' = Throw("uc_fail", "OSError")
               /\ Emit("fault_remove_other")
       ELSE /\ fs' = fs
            /\ pc' = "uc_install"
            /\ events' = events
    /\ UNCHANGED <<ucFrame, response, downloaded, uc_ret, uy_ret>>

\* except PermissionError: taskkill /F /IM filename; os.remove(target_path)
UC_KillRetry ==
    /\ pc = "uc_kill"
    /\ \/ /\ fs' = Removed(fs, "target")
          /\ pc' = "uc_install"
          /\ Emit("taskkill")
       \/ /\ fs' = fs                              \* caught by the bare except
          /\ pc' = "uc_aside"
          /\ events' = events \cup {"taskkill", "fault_kill_remove"}
    /\ UNCHANGED <<ucFrame, response, downloaded, uc_ret, uy_ret>>

\* except: remove a stale .old (errors ignored); os.rename(target, old)
UC_RenameAside ==
    /\ pc = "uc_aside"
    /\ \E rm_ok \in BOOLEAN, mv_ok \in BOOLEAN :
          LET f1 == IF rm_ok THEN RemoveStaleOld(fs) ELSE fs
              faults ==
                  (IF Exists(fs, "old") /\ ~rm_ok
                   THEN {"fault_stale_remove"} ELSE {})
                  \cup (IF ~mv_ok THEN {"fault_rename_aside"} ELSE {})
          IN  /\ events' = events \cup {"rename_aside"} \cup faults
              /\ IF mv_ok /\ CanRename(f1, "target", "old")
                 THEN /\ fs' = Renamed(f1, "target", "old")
                      /\ pc' = "uc_install"
                 ELSE /\ fs' = f1
                      /\ pc' = Throw("uc_fail", "OSError")
    /\ UNCHANGED <<ucFrame, response, downloaded, uc_ret, uy_ret>>

\* os.rename(temp_path, target_path); return True
UC_Install ==
    /\ pc = "uc_install"
    /\ \E mv_ok \in BOOLEAN :
          IF mv_ok /\ CanRename(fs, "temp", "target")
          THEN /\ fs' = Renamed(fs, "temp", "target")
               /\ uc_ret' = TRUE
               /\ uy_ret' = TRUE
               /\ pc' = "uy_return"
               /\ Emit("installed")
          ELSE /\ pc' = Throw("uc_fail", "OSError")
               /\ events' = events \cup
                     (IF mv_ok THEN {} ELSE {"fault_final_rename"})
               /\ UNCHANGED <<fs, uc_ret, uy_ret>>
    /\ UNCHANGED <<ucFrame, response, downloaded>>

\* except Exception: remove temp_path if it exists (errors ignored); return False
UC_Fail ==
    /\ pc = "uc_fail"
    /\ \E rm_ok \in BOOLEAN :
          /\ fs' = IF rm_ok THEN CleanupTemp(fs) ELSE fs
          /\ events' = events \cup
                (IF Exists(fs, "temp") /\ ~rm_ok THEN {"fault_cleanup"} ELSE {})
    /\ uc_ret' = FALSE
    /\ uy_ret' = FALSE
    /\ pc' = "uy_return"
    /\ UNCHANGED <<ucFrame, response, downloaded>>

-----------------------------------------------------------------------------
(* perform_app_update *)

paFrame == <<entry, skip_app_update, app_version_url, force, app_update,
             file_exists, local_ver, remote_info, download_url, target_before,
             uc_ret, uy_ret, result, othersFrame>>

\* requests.get(download_url, stream=True, timeout=120); raise_for_status
PA_Request ==
    /\ pc = "pa_request"
    /\ Emit("app_download_request")
    /\ \E r \in AppResponses \cup {NoResponse} :
          /\ response' = r
          /\ pc' = IF r = NoResponse
                   THEN Throw("pa_fail", "RequestException") ELSE "pa_open"
    /\ UNCHANGED <<paFrame, pa_result, downloaded, source_dir, fs>>

\* downloaded = 0; open(download_temp, 'wb')
PA_Open ==
    /\ pc = "pa_open"
    /\ downloaded' = 0
    /\ \/ /\ fs' = [fs EXCEPT !["download_temp"] = File("app_payload", 0)]
          /\ pc' = "pa_chunk"
       \/ /\ fs' = fs
          /\ pc' = Throw("pa_fail", "OSError")
    /\ UNCHANGED <<paFrame, pa_result, response, source_dir, events>>

\* one iteration of the chunk loop
PA_Chunk ==
    /\ pc = "pa_chunk"
    /\ downloaded < response.size
    /\ \/ LET n == NextChunk(response, downloaded)
          IN  /\ downloaded' = downloaded + n
              /\ fs' = [fs EXCEPT !["download_temp"] =
                           File("app_payload", fs["download_temp"].size + n)]
              /\ pc' = "pa_chunk"
       \/ /\ pc' = Throw("pa_fail", "RequestException")   \* the stream raised
          /\ UNCHANGED <<downloaded, fs>>
       \/ /\ pc' = Throw("pa_fail", "OSError")            \* f.write raised
          /\ UNCHANGED <<downloaded, fs>>
    /\ UNCHANGED <<paFrame, pa_result, response, source_dir, events>>

\* is_zip = zipfile.is_zipfile(download_temp)
PA_Detect ==
    /\ pc = "pa_chunk"
    /\ downloaded = response.size
    /\ pc' = NextAppStep("pa_chunk", response.kind)
    /\ Emit("app_download_complete")
    /\ UNCHANGED <<paFrame, pa_result, response, downloaded, source_dir, fs>>

\* rmtree + makedirs + extractall + the search for the executable
PA_Extract ==
    /\ pc = "pa_extract"
    /\ \/ /\ fs' = fs                              \* makedirs raised
          /\ pc' = Throw("pa_fail", "OSError")
          /\ source_dir' = source_dir
       \/ /\ fs' = [fs EXCEPT !["extract_dir"] = File("dir", 0)]
          /\ pc' = Throw("pa_fail", "BadZipFile")  \* extractall raised
          /\ source_dir' = source_dir
       \/ /\ fs' = [fs EXCEPT !["extract_dir"] = File("dir", response.size)]
          /\ LET k == FindExe(response.tree)
             IN  IF k = 0
                 THEN /\ pc' = Throw("pa_fail", "UpdateError")   \* no .exe
                      /\ source_dir' = source_dir
                 ELSE /\ pc' = NextAppStep("pa_extract", response.kind)
                      /\ source_dir' = response.tree[k].dir
    /\ UNCHANGED <<paFrame, pa_result, response, downloaded, events>>

\* remove a stale app.new.exe; rename the download to it; validate its size
PA_Stage ==
    /\ pc = "pa_stage"
    /\ \/ /\ Exists(fs, "new_app")
          /\ fs' = fs                              \* os.remove raised
          /\ pc' = Throw("pa_fail", "OSError")
          /\ events' = events
       \/ /\ fs' = Removed(fs, "new_app")          \* os.rename raised
          /\ pc' = Throw("pa_fail", "OSError")
          /\ events' = events
       \/ LET f1 == Renamed(Removed(fs, "new_app"), "download_temp", "new_app")
          IN  /\ fs' = f1
              /\ Emit("staged")
              /\ pc' = IF f1["new_app"].size < AppMinSize
                       THEN Throw("pa_fail", "UpdateError")
                       ELSE NextAppStep("pa_stage", response.kind)
    /\ UNCHANGED <<paFrame, pa_result, response, downloaded, source_dir>>

\* with open(batch_path, 'w') as f: f.write(batch_content)
PA_WriteScript ==
    /\ pc = "pa_write"
    /\ \/ /\ fs' = fs                              \* open raised
          /\ pc' = Throw("pa_fail", "OSError")
          /\ events' = events
       \/ /\ fs' = [fs EXCEPT !["batch"] = File("script", 0)]
          /\ pc' = Throw("pa_fail", "OSError")     \* write raised
          /\ Emit("script_written")
       \/ /\ fs' = [fs EXCEPT !["batch"] = File("script", 1)]
          /\ pc' = NextAppStep("pa_write", response.kind)
          /\ Emit("script_written")
    /\ UNCHANGED <<paFrame, pa_result, response, downloaded, source_dir>>

\* subprocess.Popen(["cmd", "/c", batch_path], ...); return UpdateResult(True, ..., True)
PA_Launch ==
    /\ pc = "pa_launch"
    /\ \/ /\ Emit("script_launched")
          /\ pa_result' = UpdateResult(TRUE, TRUE)
          /\ pc' = NextAppStep("pa_launch", response.kind)
       \/ /\ pc' = Throw("pa_fail", "OSError")     \* Popen raised
          /\ UNCHANGED <<pa_result, events>>
    /\ UNCHANGED <<paFrame, response, downloaded, source_dir, fs>>

\* Variant: the handler also removes the executable it failed to replace.
CleanupAppArtifactsAndApp(f, dt_ok, dir_ok, bat_ok) ==
    Removed(Removed(Removed(Removed(f, "download_temp"), "extract_dir"),
                    "batch"), "app")

\* the three removals of the handler of perform_app_update, as far as they go:
\* dt_ok, dir_ok, bat_ok say whether each removal does its work
CleanupAppArtifacts(f, dt_ok, dir_ok, bat_ok) ==
    IF Exists(f, "download_temp") /\ ~dt_ok
    THEN f                                         \* os.remove raised: the rest is skipped
    ELSE LET f1 == Removed(f, "download_temp")
             f2 == IF dir_ok THEN Removed(f1, "extract_dir") ELSE f1
         IN  IF bat_ok THEN Removed(f2, "batch") ELSE f2

\* except Exception: the cleanup runs in one try, so a removal that raises
\* skips the removals after it; then return UpdateResult(False, ..., False)
PA_Fail ==
    /\ pc = "pa_fail"
    /\ \E dt_ok \in BOOLEAN, dir_ok \in BOOLEAN, bat_ok \in BOOLEAN :
          LET f1 == CleanupAppArtifacts(fs, dt_ok, dir_ok, bat_ok)
          IN  /\ fs' = f1
              /\ events' = events \cup
                    (IF \E p \in {"download_temp", "extract_dir", "batch"} :
                            Exists(f1, p)
                     THEN {"fault_app_cleanup"} ELSE {})
    /\ pa_result' = UpdateResult(FALSE, FALSE)
    /\ pc' = "app_result"
    /\ UNCHANGED <<paFrame, response, downloaded, source_dir>>

-----------------------------------------------------------------------------
(* _on_stop while the update worker runs *)

\* the Stop button is pressed during a run of run_full_update_routine:
\* _on_stop assigns is_downloading, is_updating and the button states, none of
\* which the worker reads, so the worker's own state is unchanged
OnStop ==
    /\ entry = "routine"
    /\ pc \notin {"idle", "done", "raised"}
    /\ stopped = "no"
    /\ stopped' = IF pc \in {"uc_chunk", "pa_chunk"} THEN "download" ELSE "other"
    /\ UNCHANGED <<updaterVars, fnVars, uiVars, scriptVars, settingsVars>>

-----------------------------------------------------------------------------
(* Specification *)

\* the steps of the update worker
WorkerNext ==
    \/ RunFullUpdateRoutine
    \/ CheckAppUpdate
    \/ PA_Request
    \/ PA_Open
    \/ PA_Chunk
    \/ PA_Detect
    \/ PA_Extract
    \/ PA_Stage
    \/ PA_WriteScript
    \/ PA_Launch
    \/ PA_Fail
    \/ AppStageResult
    \/ UpdateYtdlpCall
    \/ UY_Probe
    \/ UY_Remote
    \/ UY_Decide
    \/ UC_Request
    \/ UC_Open
    \/ UC_Chunk
    \/ UC_Validate
    \/ UC_RemoveOld
    \/ UC_KillRetry
    \/ UC_RenameAside
    \/ UC_Install
    \/ UC_Fail
    \/ RoutineReturn
    \/ YtdlpReturn

\* the worker's steps, and the user pressing Stop while it runs
Next ==
    \/ WorkerNext
    \/ OnStop

Spec == Init /\ [][Next]_vars

-----------------------------------------------------------------------------
(* The version-checking functions called on their own *)

\* no update has been started: the worker's state as the module leaves it
UpdaterAtRest ==
    /\ pc = "idle"
    /\ entry = "none"
    /\ skip_app_update = FALSE
    /\ app_version_url = "none"
    /\ force = FALSE
    /\ app_update = NoneInfo
    /\ pa_result = NoResult
    /\ file_exists = FALSE
    /\ local_ver = NoneStr
    /\ remote_info = NoneInfo
    /\ download_url = ""
    /\ response = NoResponse
    /\ downloaded = 0
    /\ source_dir = "none"
    /\ fs = [p \in Paths |-> IF p = "app" THEN AppExe ELSE NoFile]
    /\ target_before = NoFile
    /\ uc_ret = FALSE
    /\ uy_ret = FALSE
    /\ result = NoResult
    /\ events = {}
    /\ stopped = "no"

\* current_version arguments of check_app_update
CurrentVersions == {v3_3_0, v3_3_1, v3_10}

FnInit ==
    /\ UpdaterAtRest
    /\ FnIdle
    /\ UIIdle
    /\ ScriptIdle
    /\ SettingsIdle

\* get_local_ytdlp_version(ytdlp_path) is called
Call_get_local_ytdlp_version ==
    /\ fn = "none"
    /\ fn' = "get_local_ytdlp_version"
    /\ \E exists \in BOOLEAN, out \in ProbeOutcomes :
          fn_in' = [exists |-> exists, out |-> out]
    /\ UNCHANGED <<fn_out, updaterVars, stopped, uiVars, scriptVars, settingsVars>>

\* ... and returns, or an exception leaves it
Return_get_local_ytdlp_version ==
    /\ fn = "get_local_ytdlp_version"
    /\ ~fn_out.returned
    /\ fn_out' = [returned |-> TRUE,
                  raised |-> ProbeRaises(fn_in.exists, fn_in.out),
                  value |-> get_local_ytdlp_version(fn_in.exists, fn_in.out),
                  spawns |-> ProbeSpawns(fn_in.exists)]
    /\ UNCHANGED <<fn, fn_in, updaterVars, stopped, uiVars, scriptVars, settingsVars>>

\* get_remote_ytdlp_version() is called
Call_get_remote_ytdlp_version ==
    /\ fn = "none"
    /\ fn' = "get_remote_ytdlp_version"
    /\ \E out \in ToolMetaOutcomes : fn_in' = [out |-> out]
    /\ UNCHANGED <<fn_out, updaterVars, stopped, uiVars, scriptVars, settingsVars>>

Return_get_remote_ytdlp_version ==
    /\ fn = "get_remote_ytdlp_version"
    /\ ~fn_out.returned
    /\ fn_out' = [returned |-> TRUE,
                  raised |-> RemoteRaises(fn_in.out),
                  value |-> get_remote_ytdlp_version(fn_in.out)]
    /\ UNCHANGED <<fn, fn_in, updaterVars, stopped, uiVars, scriptVars, settingsVars>>

\* check_app_update(current_version, version_url) is called
Call_check_app_update ==
    /\ fn = "none"
    /\ fn' = "check_app_update"
    /\ \E v \in CurrentVersions, out \in AppMetaOutcomes :
          fn_in' = [current_version |-> v, out |-> out]
    /\ UNCHANGED <<fn_out, updaterVars, stopped, uiVars, scriptVars, settingsVars>>

Return_check_app_update ==
    /\ fn = "check_app_update"
    /\ ~fn_out.returned
    /\ fn_out' = [returned |-> TRUE,
                  raised |-> AppRaises(fn_in.out),
                  value |-> check_app_update(fn_in.current_version, fn_in.out)]
    /\ UNCHANGED <<fn, fn_in, updaterVars, stopped, uiVars, scriptVars, settingsVars>>

\* str(n) for a natural number
RECURSIVE FormatInt(_)
FormatInt(n) ==
    LET DigitChar(d) == <<"0", "1", "2", "3", "4", "5", "6", "7", "8", "9">>[d + 1]
    IN  IF n < 10 THEN <<DigitChar(n)>>
        ELSE FormatInt(n \div 10) \o <<DigitChar(n % 10)>>

\* the tokens version strings are generated from, as their author means
\* them: a number (val) or a word, which stands for no number (val 0)
TokenSet ==
    {[num |-> TRUE, val |-> n, word |-> <<>>] : n \in {0, 9, 10}}
        \cup {[num |-> FALSE, val |-> 0, word |-> <<"b">>]}

TokenLists == UNION {[1..n -> TokenSet] : n \in 1..MaxTokens}

\* sep.join(the text of each token)
RECURSIVE Join(_, _)
Join(toks, sep) ==
    LET FormatToken(t) == IF t.num THEN FormatInt(t.val) ELSE t.word
    IN  IF Len(toks) = 1 THEN FormatToken(toks[1])
        ELSE FormatToken(toks[1]) \o <<sep>> \o Join(Tail(toks), sep)

RECURSIVE ZeroSegments(_)
ZeroSegments(k) == IF k = 0 THEN <<>> ELSE <<".", "0">> \o ZeroSegments(k - 1)

\* how a release tag may write the same version: a prefix character, the
\* separator between tokens, ".0" segments at the end
Plain == [prefix |-> <<>>, zeros |-> 0, sep |-> "."]
Decorations ==
    {[prefix |-> p, zeros |-> k, sep |-> "."] :
        p \in {<<>>, <<"v">>, <<"V">>}, k \in 0..MaxZeros}
        \cup {[prefix |-> <<>>, zeros |-> 0, sep |-> sep] : sep \in {"-", "_"}}

\* the version string of a token list under a decoration
VersionString(toks, d) == d.prefix \o Join(toks, d.sep) \o ZeroSegments(d.zeros)

\* compare_versions(local, remote) is called with two generated strings; the
\* caller also calls it with the arguments exchanged
Call_compare_versions ==
    /\ fn = "none"
    /\ fn' = "compare_versions"
    /\ \E lt \in TokenLists, rt \in TokenLists, d \in Decorations :
          fn_in' = [local |-> VersionString(lt, Plain),
                    remote |-> VersionString(rt, d),
                    ltoks |-> lt, rtoks |-> rt, deco |-> d]
    /\ UNCHANGED <<fn_out, updaterVars, stopped, uiVars, scriptVars, settingsVars>>

Return_compare_versions ==
    /\ fn = "compare_versions"
    /\ ~fn_out.returned
    /\ fn_out' = [returned |-> TRUE,
                  value |-> compare_versions(fn_in.local, fn_in.remote),
                  swapped |-> compare_versions(fn_in.remote, fn_in.local)]
    /\ UNCHANGED <<fn, fn_in, updaterVars, stopped, uiVars, scriptVars, settingsVars>>

\* version strings of different lengths, prefixes, separators and token kinds
OrderSample ==
    {<<>>, <<"b">>, <<"9">>, <<"1", "0">>, <<"9", ".", "0">>,
     <<"9", ".", "0", ".", "9">>, <<"9", ".", "1", "0">>, <<"9", ".", "9">>,
     <<"v", "9", ".", "9">>, <<"9", "-", "b">>, <<"0", ".", "9">>,
     <<"1", "0", "_", "0">>}

\* compare_versions is called on the three pairs of a chain a, b, c
Call_compare_versions_chain ==
    /\ fn = "none"
    /\ fn' = "compare_versions_chain"
    /\ \E a \in OrderSample, b \in OrderSample, c \in OrderSample :
          fn_in' = [a |-> a, b |-> b, c |-> c]
    /\ UNCHANGED <<fn_out, updaterVars, stopped, uiVars, scriptVars, settingsVars>>

Return_compare_versions_chain ==
    /\ fn = "compare_versions_chain"
    /\ ~fn_out.returned
    /\ fn_out' = [returned |-> TRUE,
                  ab |-> compare_versions(fn_in.a, fn_in.b),
                  bc |-> compare_versions(fn_in.b, fn_in.c),
                  ac |-> compare_versions(fn_in.a, fn_in.c)]
    /\ UNCHANGED <<fn, fn_in, updaterVars, stopped, uiVars, scriptVars, settingsVars>>

\* Content-Length headers a server may send with a body of `size` bytes:
\* none, zero, smaller than the body (the header counts the encoded bytes,
\* iter_content yields the decoded ones), or exact
ContentLengths(size) ==
    {[present |-> FALSE, value |-> 0]}
        \cup {[present |-> TRUE, value |-> v] : v \in {0, 1, MinSize, size}}

\* total_size = int(response.headers.get('content-length', 0))
total_size(header) == IF header.present THEN header.value ELSE 0

\* update_component: requests.get(..., stream=True) has answered and
\* report_progress(..., 5.0) was called before it
UC_StreamRequest ==
    /\ fn = "none"
    /\ fn' = "update_component"
    /\ \E size \in {0, MinSize, ChunkSize * MaxChunks + 1} :
          \E h \in ContentLengths(size) :
              fn_in' = [size |-> size, header |-> h]
    /\ fn_out' = [returned |-> FALSE, downloaded |-> 0, chunks |-> 0,
                  reports |-> <<[num |-> 5, den |-> 1]>>]
    /\ UNCHANGED <<updaterVars, stopped, uiVars, scriptVars, settingsVars>>

\* one iteration of the chunk loop: f.write(chunk); downloaded += len(chunk);
\* if total_size > 0: report_progress(..., 5.0 + downloaded / total_size * 60.0).
\* A reported value is kept as the fraction num / den.
UC_StreamChunk ==
    /\ fn = "update_component"
    /\ ~fn_out.returned
    /\ fn_out.downloaded < fn_in.size
    /\ LET d == fn_out.downloaded + NextChunk(fn_in, fn_out.downloaded)
           t == total_size(fn_in.header)
       IN  fn_out' = [fn_out EXCEPT
                        !.downloaded = d,
                        !.chunks = @ + 1,
                        !.reports = IF t > 0
                                    THEN Append(@, [num |-> 5 * t + 60 * d, den |-> t])
                                    ELSE @]
    /\ UNCHANGED <<fn, fn_in, updaterVars, stopped, uiVars, scriptVars, settingsVars>>

\* the stream is exhausted: report_progress(..., 70.0) follows the loop
UC_StreamEnd ==
    /\ fn = "update_component"
    /\ ~fn_out.returned
    /\ fn_out.downloaded = fn_in.size
    /\ fn_out' = [fn_out EXCEPT !.returned = TRUE,
                                !.reports = Append(@, [num |-> 70, den |-> 1])]
    /\ UNCHANGED <<fn, fn_in, updaterVars, stopped, uiVars, scriptVars, settingsVars>>

\* check_ytdlp_update(engine_dir) is called
Call_check_ytdlp_update ==
    /\ fn = "none"
    /\ fn' = "check_ytdlp_update"
    /\ \E exists \in BOOLEAN, probe \in ProbeOutcomes, meta \in ToolMetaOutcomes :
          fn_in' = [exists |-> exists, probe |-> probe, meta |-> meta]
    /\ UNCHANGED <<fn_out, updaterVars, stopped, uiVars, scriptVars, settingsVars>>

\* it returns; update_ytdlp(force=False) in the same environment decides
\* whether to download
Return_check_ytdlp_update ==
    /\ fn = "check_ytdlp_update"
    /\ ~fn_out.returned
    /\ LET lv == get_local_ytdlp_version(fn_in.exists, fn_in.probe)
           ri == get_remote_ytdlp_version(fn_in.meta)
       IN  fn_out' = [returned |-> TRUE,
                      needs_update |-> check_ytdlp_update(lv, ri),
                      downloads |-> UpdateDecision(fn_in.exists, FALSE, lv, ri).needs_update]
    /\ UNCHANGED <<fn, fn_in, updaterVars, stopped, uiVars, scriptVars, settingsVars>>

FnNext ==
    \/ Call_check_ytdlp_update
    \/ Return_check_ytdlp_update
    \/ UC_StreamRequest
    \/ UC_StreamChunk
    \/ UC_StreamEnd
    \/ Call_get_local_ytdlp_version
    \/ Return_get_local_ytdlp_version
    \/ Call_get_remote_ytdlp_version
    \/ Return_get_remote_ytdlp_version
    \/ Call_check_app_update
    \/ Return_check_app_update
    \/ Call_compare_versions
    \/ Return_compare_versions
    \/ Call_compare_versions_chain
    \/ Return_compare_versions_chain

FnSpec == FnInit /\ [][FnNext]_vars

-----------------------------------------------------------------------------
(* The window: Download, Update and Stop buttons, and the threads they start *)

\* threads that are executing _start_update
InFlight == {k \in DOMAIN workers : workers[k] \in {"routine", "finally"}}

\* positions of the download thread at which its subprocess has not ended
StoppablePositions == {"start", "created", "reset", "spawned", "loop"}

\* self.after(0, _update) of set_buttons_state(busy)
Scheduled(q, busy) == Append(q, busy)

\* _on_update: askyesno, then is_updating = True, set_buttons_state(busy=True)
\* and _start_update() in a new thread; the handler does not read is_updating.
\* A click is taken only when the button states are up to date: the main
\* loop is assumed to run the callbacks already due before the next click.
OnUpdate ==
    /\ update_btn = "normal"
    /\ after_queue = <<>>
    /\ \E yes \in BOOLEAN :
          IF yes
          THEN \E k \in DOMAIN workers :
                  /\ workers[k] = "none"
                  /\ workers' = [workers EXCEPT ![k] = "routine"]
                  /\ is_updating' = TRUE
                  /\ after_queue' = Scheduled(after_queue, TRUE)
          ELSE UNCHANGED <<workers, is_updating, after_queue>>
    /\ UNCHANGED <<is_downloading, download_btn, update_btn, stop_btn, dlVars,
                   updaterVars, stopped, fnVars, scriptVars, settingsVars>>

\* _on_stop: self.downloader.cancel() if a Downloader exists (none does during
\* an update, or before the download thread has created it); both flags are
\* cleared and set_buttons_state(busy=False) is scheduled.
\* Downloader.cancel: _cancelled = True, and terminate() if _process is set.
OnStopButton ==
    /\ stop_btn = "normal"
    /\ after_queue = <<>>
    /\ IF downloader # "none"
       THEN /\ cancelled' = TRUE
            /\ proc' = IF process_handle /\ proc = "running"
                       THEN "terminated" ELSE proc
       ELSE UNCHANGED <<cancelled, proc>>
    /\ stop_at' = IF stop_at = "none" /\ dl_pc \in StoppablePositions
                  THEN dl_pc ELSE stop_at
    /\ is_downloading' = FALSE
    /\ is_updating' = FALSE
    /\ after_queue' = Scheduled(after_queue, FALSE)
    /\ UNCHANGED <<workers, download_btn, update_btn, stop_btn, dl_pc,
                   downloader, process_handle, lines, dl_result, updaterVars,
                   stopped, fnVars, scriptVars, settingsVars>>

\* the main loop runs the oldest callback of set_buttons_state
ButtonsUpdate ==
    /\ after_queue # <<>>
    /\ LET busy == Head(after_queue)
       IN  /\ download_btn' = IF busy THEN "disabled" ELSE "normal"
           /\ update_btn' = IF busy THEN "disabled" ELSE "normal"
           /\ stop_btn' = IF busy THEN "normal" ELSE "disabled"
    /\ after_queue' = Tail(after_queue)
    /\ UNCHANGED <<is_downloading, is_updating, workers, dlVars, updaterVars,
                   stopped, fnVars, scriptVars, settingsVars>>

\* run_full_update_routine returns to _start_update
WorkerReturns ==
    /\ \E k \in DOMAIN workers :
          /\ workers[k] = "routine"
          /\ workers' = [workers EXCEPT ![k] = "finally"]
    /\ UNCHANGED <<is_downloading, is_updating, download_btn, update_btn,
                   stop_btn, after_queue, dlVars, updaterVars, stopped, fnVars,
                   scriptVars, settingsVars>>

\* finally: is_updating = False; set_buttons_state(busy=False); the thread ends
WorkerFinally ==
    /\ Len(after_queue) < MaxPending
    /\ \E k \in DOMAIN workers :
          /\ workers[k] = "finally"
          /\ workers' = [workers EXCEPT ![k] = "none"]
    /\ is_updating' = FALSE
    /\ after_queue' = Scheduled(after_queue, FALSE)
    /\ UNCHANGED <<is_downloading, download_btn, update_btn, stop_btn, dlVars,
                   updaterVars, stopped, fnVars, scriptVars, settingsVars>>

\* what a step of the download thread leaves alone in the window
dlFrame == <<is_updating, download_btn, update_btn, stop_btn, workers,
             updaterVars, stopped, fnVars, scriptVars, settingsVars>>

\* _on_download: returns after a message box when the URL, the output folder
\* or yt-dlp.exe is missing; otherwise is_downloading = True,
\* set_buttons_state(busy=True) and _start_download(url) in a new thread.
\* The handler reads neither is_updating nor the update threads.
\* One download thread is followed at a time.
OnDownload ==
    /\ download_btn = "normal"
    /\ after_queue = <<>>
    /\ dl_pc = "none"
    /\ \E ready \in BOOLEAN :
          IF ready
          THEN /\ is_downloading' = TRUE
               /\ after_queue' = Scheduled(after_queue, TRUE)
               /\ dl_pc' = "start"
               /\ proc' = "none"
               /\ lines' = 0
               /\ dl_result' = "none"
               /\ stop_at' = "none"
          ELSE UNCHANGED <<is_downloading, after_queue, dl_pc, proc, lines,
                           dl_result, stop_at>>
    /\ UNCHANGED <<downloader, cancelled, process_handle, dlFrame>>

\* _start_download: self.downloader = Downloader(...); __init__ sets
\* _cancelled = False and _process = None
DL_Create ==
    /\ dl_pc = "start"
    /\ dl_pc' = "created"
    /\ downloader' = "created"
    /\ cancelled' = FALSE
    /\ process_handle' = FALSE
    /\ UNCHANGED <<is_downloading, after_queue, proc, lines, dl_result,
                   stop_at, dlFrame>>

\* Downloader.download: self._cancelled = False, then the validations; a
\* missing yt-dlp.exe or an unusable folder returns a failed result
DL_Reset ==
    /\ dl_pc = "created"
    /\ cancelled' = FALSE
    /\ \E valid \in BOOLEAN :
          IF valid
          THEN /\ dl_pc' = "reset"
               /\ UNCHANGED dl_result
          ELSE /\ dl_pc' = "returned"
               /\ dl_result' = "failed"
    /\ UNCHANGED <<is_downloading, after_queue, downloader, process_handle,
                   proc, lines, stop_at, dlFrame>>

\* subprocess.Popen(cmd, ...) returns a running process, or raises and
\* download() returns a failed result
DL_Popen ==
    /\ dl_pc = "reset"
    /\ \E started \in BOOLEAN :
          IF started
          THEN /\ dl_pc' = "spawned"
               /\ proc' = "running"
               /\ UNCHANGED dl_result
          ELSE /\ dl_pc' = "returned"
               /\ dl_result' = "failed"
               /\ UNCHANGED proc
    /\ UNCHANGED <<is_downloading, after_queue, downloader, cancelled,
                   process_handle, lines, stop_at, dlFrame>>

\* self._process = <the Popen object>
DL_AssignProcess ==
    /\ dl_pc = "spawned"
    /\ dl_pc' = "loop"
    /\ process_handle' = TRUE
    /\ UNCHANGED <<is_downloading, after_queue, downloader, cancelled, proc,
                   lines, dl_result, stop_at, dlFrame>>

\* for line in self._process.stdout: a line arrives (from a running process,
\* or left in the pipe by a terminated one). With _cancelled set the worker
\* terminates the process and returns "Download cancelled" (finally:
\* _process = None); otherwise it parses the line and reads on.
DL_ReadLine ==
    /\ dl_pc = "loop"
    /\ proc \in {"running", "terminated"}
    /\ IF cancelled
       THEN /\ proc' = "terminated"
            /\ dl_result' = "cancelled"
            /\ dl_pc' = "returned"
            /\ process_handle' = FALSE
            /\ UNCHANGED lines
       ELSE /\ proc = "running"
            /\ lines < MaxLines
            /\ lines' = lines + 1
            /\ UNCHANGED <<proc, dl_result, dl_pc, process_handle>>
    /\ UNCHANGED <<is_downloading, after_queue, downloader, cancelled,
                   stop_at, dlFrame>>

\* the output ends: the process has exited by itself (yt-dlp prints at least
\* one line before it does) with code 0 or not, or it was terminated;
\* return_code = wait(), _process = None, success only for code 0
DL_EndOfOutput ==
    /\ dl_pc = "loop"
    /\ \/ /\ proc = "running"
          /\ lines >= 1
          /\ proc' = "exited"
          /\ \E return_code \in {0, 1} :
                dl_result' = IF return_code = 0 THEN "success" ELSE "failed"
       \/ /\ proc = "terminated"
          /\ dl_result' = "failed"
          /\ UNCHANGED proc
    /\ dl_pc' = "returned"
    /\ process_handle' = FALSE
    /\ UNCHANGED <<is_downloading, after_queue, downloader, cancelled, lines,
                   stop_at, dlFrame>>

\* _start_download after download() returned: the message box, then finally:
\* is_downloading = False, self.downloader = None, set_buttons_state(busy=False)
DL_Finally ==
    /\ dl_pc = "returned"
    /\ Len(after_queue) < MaxPending
    /\ dl_pc' = "none"
    /\ is_downloading' = FALSE
    /\ downloader' = "none"
    /\ after_queue' = Scheduled(after_queue, FALSE)
    /\ UNCHANGED <<cancelled, process_handle, proc, lines, dl_result, stop_at,
                   dlFrame>>

UIInit ==
    /\ UpdaterAtRest
    /\ FnIdle
    /\ UIIdle
    /\ ScriptIdle
    /\ SettingsIdle

UINext ==
    \/ OnUpdate
    \/ OnStopButton
    \/ ButtonsUpdate
    \/ WorkerReturns
    \/ WorkerFinally
    \/ OnDownload
    \/ DL_Create
    \/ DL_Reset
    \/ DL_Popen
    \/ DL_AssignProcess
    \/ DL_ReadLine
    \/ DL_EndOfOutput
    \/ DL_Finally

UISpec == UIInit /\ [][UINext]_vars

\* the update worker is scheduled until it returns: every blocking call it
\* makes is bounded (request timeouts, the probe timeout) or ends with the
\* stream
FairSpec == Init /\ [][WorkerNext]_vars /\ WF_vars(WorkerNext)

-----------------------------------------------------------------------------
(* The relaunch script written by perform_app_update, run by cmd /c *)

\* one command of a script and the condition of the block it stands in
Cmd(op, cond) == [op |-> op, cond |-> cond]

\* batch_content of the archive branch (directory merge)
ScriptArchive ==
    <<Cmd("timeout", "always"),            \* timeout /t 3
      Cmd("taskkill", "always"),           \* taskkill /f /im app_name
      Cmd("timeout", "always"),            \* timeout /t 2
      Cmd("robocopy", "always"),           \* robocopy source_dir app_dir /E
      Cmd("xcopy", "if_errorlevel_8"),     \* if errorlevel 8 ( xcopy ... )
      Cmd("rmdir_extract", "always"),      \* rmdir /s /q extract_dir
      Cmd("del_download", "always"),       \* del /f /q download_temp
      Cmd("timeout", "if_exist"),          \* if exist app_path ( timeout /t 2
      Cmd("start_post_update", "if_exist"),   \* start "" app_path --post-update
      Cmd("pause", "if_not_exist"),        \* ) else ( pause )
      Cmd("del_self", "always")>>          \* (goto) 2>nul & del "%~f0"

\* Variant: the new build is started before it is moved into place.
ScriptRawLaunchFirst ==
    <<Cmd("timeout", "always"),
      Cmd("del_app", "always"),
      Cmd("taskkill", "if_exist"),
      Cmd("timeout", "if_exist"),
      Cmd("del_app", "if_exist"),
      Cmd("timeout", "if_exist"),
      Cmd("start_post_update", "if_exist"),
      Cmd("move_new", "always"),
      Cmd("pause", "if_not_exist"),
      Cmd("del_self", "always")>>

\* batch_content of the raw branch (delete, then move)
ScriptRaw ==
    <<Cmd("timeout", "always"),            \* timeout /t 3
      Cmd("del_app", "always"),            \* del /f /q app_path
      Cmd("taskkill", "if_exist"),         \* if exist app_path ( taskkill ...
      Cmd("timeout", "if_exist"),          \*     timeout /t 2
      Cmd("del_app", "if_exist"),          \*     del /f /q app_path )
      Cmd("move_new", "always"),           \* move /y new_app_path app_path
      Cmd("timeout", "if_exist"),          \* if exist app_path ( timeout /t 1
      Cmd("start_post_update", "if_exist"),   \* start "" app_path --post-update
      Cmd("pause", "if_not_exist"),        \* ) else ( pause )
      Cmd("del_self", "always")>>          \* (goto) 2>nul & del "%~f0"

Script(kind) == IF kind = "archive" THEN ScriptArchive ELSE ScriptRaw

ScriptRunning == sc_kind # "none" /\ sc_ip \in 1..Len(Script(sc_kind))

\* the command the script is at
Cur == Script(sc_kind)[sc_ip]

\* the condition of a block, as cmd evaluates it; no command inside a block
\* changes what the block's condition tests
CondHolds(cond) ==
    CASE cond = "always" -> TRUE
      [] cond = "if_exist" -> app_build # "none"
      [] cond = "if_not_exist" -> app_build = "none"
      [] cond = "if_errorlevel_8" -> copy_failed

At(op) == ScriptRunning /\ Cur.op = op /\ CondHolds(Cur.cond)

\* the command has run: it is recorded and the script goes on
Done(op) ==
    /\ sc_trace' = Append(sc_trace, op)
    /\ sc_ip' = sc_ip + 1

scriptFrame == <<updaterVars, stopped, fnVars, uiVars, settingsVars>>

\* subprocess.Popen(["cmd", "/c", batch_path], ...) has started the script
\* of a successful perform_app_update: the old build is at app_path and may
\* still be running
Script_Popen ==
    /\ sc_kind = "none"
    /\ \E kind \in {"archive", "raw"}, same \in BOOLEAN :
          /\ kind = "raw" => same
          /\ sc_kind' = kind
          /\ sc_same_name' = same
    /\ sc_ip' = 1
    /\ script_file' = TRUE
    /\ UNCHANGED <<sc_trace, host_running, app_build, copy_failed, relaunched,
                   scriptFrame>>

\* a command in a block whose condition is false is not run
Script_Skip ==
    /\ ScriptRunning
    /\ ~CondHolds(Cur.cond)
    /\ sc_ip' = sc_ip + 1
    /\ UNCHANGED <<sc_kind, sc_trace, sc_same_name, host_running, app_build,
                   copy_failed, script_file, relaunched, scriptFrame>>

\* timeout /t n /nobreak: the host may exit while the script sleeps
Script_Timeout ==
    /\ At("timeout")
    /\ Done("timeout")
    /\ host_running' \in {host_running, FALSE}
    /\ UNCHANGED <<sc_kind, sc_same_name, app_build, copy_failed, script_file,
                   relaunched, scriptFrame>>

\* taskkill /f /im app_name 2>nul: ends the host, or fails
Script_Taskkill ==
    /\ At("taskkill")
    /\ Done("taskkill")
    /\ host_running' \in {host_running, FALSE}
    /\ UNCHANGED <<sc_kind, sc_same_name, app_build, copy_failed, script_file,
                   relaunched, scriptFrame>>

\* del /f /q app_path 2>nul: the image of a running process cannot be deleted
Script_DelApp ==
    /\ At("del_app")
    /\ Done("del_app")
    /\ app_build' \in {app_build} \cup (IF host_running THEN {} ELSE {"none"})
    /\ UNCHANGED <<sc_kind, sc_same_name, host_running, copy_failed, script_file,
                   relaunched, scriptFrame>>

\* move /y new_app_path app_path: fails when app_path is held by a process
Script_MoveNew ==
    /\ At("move_new")
    /\ Done("move_new")
    /\ app_build' \in {app_build} \cup
          (IF app_build # "none" /\ host_running THEN {} ELSE {"new"})
    /\ UNCHANGED <<sc_kind, sc_same_name, host_running, copy_failed, script_file,
                   relaunched, scriptFrame>>

\* what a copy of source_dir over app_dir can leave at app_path and whether
\* it fails: an executable of another file name is copied beside app_path
CopyOutcomes ==
    {[build |-> app_build, failed |-> TRUE]}
        \cup (IF ~sc_same_name THEN {[build |-> app_build, failed |-> FALSE]}
              ELSE IF host_running THEN {}
              ELSE {[build |-> "new", failed |-> FALSE]})

\* robocopy source_dir app_dir /E ...
Script_Robocopy ==
    /\ At("robocopy")
    /\ Done("robocopy")
    /\ \E o \in CopyOutcomes :
          /\ app_build' = o.build
          /\ copy_failed' = o.failed
    /\ UNCHANGED <<sc_kind, sc_same_name, host_running, script_file, relaunched,
                   scriptFrame>>

\* xcopy /s /e /y /q source_dir\* app_dir
Script_Xcopy ==
    /\ At("xcopy")
    /\ Done("xcopy")
    /\ \E o \in CopyOutcomes : app_build' = o.build
    /\ UNCHANGED <<sc_kind, sc_same_name, host_running, copy_failed, script_file,
                   relaunched, scriptFrame>>

\* rmdir /s /q extract_dir; del /f /q download_temp
Script_Cleanup ==
    /\ \E op \in {"rmdir_extract", "del_download"} : At(op) /\ Done(op)
    /\ UNCHANGED <<sc_kind, sc_same_name, host_running, app_build, copy_failed,
                   script_file, relaunched, scriptFrame>>

\* start "" app_path --post-update: whatever is at app_path is started
Script_Start ==
    /\ At("start_post_update")
    /\ Done("start_post_update")
    /\ relaunched' = app_build
    /\ host_running' = TRUE
    /\ UNCHANGED <<sc_kind, sc_same_name, app_build, copy_failed, script_file,
                   scriptFrame>>

\* pause: the user presses a key
Script_Pause ==
    /\ At("pause")
    /\ Done("pause")
    /\ UNCHANGED <<sc_kind, sc_same_name, host_running, app_build, copy_failed,
                   script_file, relaunched, scriptFrame>>

\* (goto) 2>nul & del "%~f0"
Script_DelSelf ==
    /\ At("del_self")
    /\ Done("del_self")
    /\ script_file' = FALSE
    /\ UNCHANGED <<sc_kind, sc_same_name, host_running, app_build, copy_failed,
                   relaunched, scriptFrame>>

ScriptInit ==
    /\ UpdaterAtRest
    /\ FnIdle
    /\ UIIdle
    /\ ScriptIdle
    /\ SettingsIdle

ScriptNext ==
    \/ Script_Popen
    \/ Script_Skip
    \/ Script_Timeout
    \/ Script_Taskkill
    \/ Script_DelApp
    \/ Script_MoveNew
    \/ Script_Robocopy
    \/ Script_Xcopy
    \/ Script_Cleanup
    \/ Script_Start
    \/ Script_Pause
    \/ Script_DelSelf

ScriptSpec == ScriptInit /\ [][ScriptNext]_vars

-----------------------------------------------------------------------------
(* SettingsManager: the cached settings and the settings file *)

\* the directories a user can choose
Folders == {"", "A", "B"}

\* {**DEFAULT_SETTINGS, **settings}: the keys of the file win
Merge(defaults, content) ==
    Settings(IF "download_path" \in content.keys
             THEN content.download_path ELSE defaults.download_path,
             IF "first_run_complete" \in content.keys
             THEN content.first_run_complete ELSE defaults.first_run_complete)

\* json.dump(settings, f) of a settings dictionary
Dump(settings) ==
    [keys |-> {"download_path", "first_run_complete"},
     download_path |-> settings.download_path,
     first_run_complete |-> settings.first_run_complete]

\* load(): the cached dictionary itself if there is one; else the file merged
\* with the defaults, or a copy of the defaults when the file is missing or
\* unreadable. The value returned is the new value of _cache.
load(c, f) ==
    IF c.some THEN c
    ELSE IF f.state = "ok" THEN Merge(DEFAULT_SETTINGS, f.content)
    ELSE DEFAULT_SETTINGS

\* what open(SETTINGS_FILE, 'w') and json.dump can do: succeed, fail before
\* the file is opened, or fail after the file was truncated
WriteOutcomes == {"written", "open_failed", "write_failed"}

\* the file after save(settings) with the given outcome
Written(f, settings, outcome) ==
    IF outcome = "written" THEN [state |-> "ok", content |-> Dump(settings)]
    ELSE IF outcome = "write_failed" THEN [state |-> "corrupt", content |-> NoContent]
    ELSE f

settingsFrame == <<updaterVars, stopped, fnVars, uiVars, scriptVars>>

\* SettingsManager.load()
SM_Load ==
    /\ cache' = load(cache, settings_file)
    /\ sm_ret' = [op |-> "load", ok |-> TRUE]
    /\ UNCHANGED <<settings_file, settingsFrame>>

\* SettingsManager.save_path(path): settings = load() is the cached dictionary
\* itself, the two keys are assigned in it, then save(settings) writes the
\* file and, only when the write succeeded, assigns _cache = settings
SM_SavePath ==
    \E path \in Folders, outcome \in WriteOutcomes :
        LET settings == Settings(path, TRUE)
        IN  /\ cache' = settings
            /\ settings_file' = Written(settings_file, settings, outcome)
            /\ sm_ret' = [op |-> "save_path", ok |-> outcome = "written"]
            /\ UNCHANGED settingsFrame

\* SettingsManager.clear_path(): the same with download_path = ""
SM_ClearPath ==
    \E outcome \in WriteOutcomes :
        LET loaded == load(cache, settings_file)
            settings == Settings("", loaded.first_run_complete)
        IN  /\ cache' = settings
            /\ settings_file' = Written(settings_file, settings, outcome)
            /\ sm_ret' = [op |-> "clear_path", ok |-> outcome = "written"]
            /\ UNCHANGED settingsFrame

\* SettingsManager.invalidate_cache()
SM_InvalidateCache ==
    /\ cache.some
    /\ cache' = NoCache
    /\ sm_ret' = [op |-> "invalidate_cache", ok |-> TRUE]
    /\ UNCHANGED <<settings_file, settingsFrame>>

\* the file the program finds at its first call: none, one that json.load
\* rejects, or a JSON object with some of the two keys
SettingsFiles ==
    {[state |-> "missing", content |-> NoContent],
     [state |-> "corrupt", content |-> NoContent]}
    \cup {[state |-> "ok",
           content |-> [keys |-> ks,
                        download_path |-> IF "download_path" \in ks THEN p ELSE "",
                        first_run_complete |-> "first_run_complete" \in ks /\ c]] :
            ks \in SUBSET {"download_path", "first_run_complete"},
            p \in Folders, c \in BOOLEAN}

SettingsInit ==
    /\ UpdaterAtRest
    /\ FnIdle
    /\ UIIdle
    /\ ScriptIdle
    /\ cache = NoCache
    /\ settings_file \in SettingsFiles
    /\ sm_ret = [op |-> "none", ok |-> TRUE]

SettingsNext ==
    \/ SM_Load
    \/ SM_SavePath
    \/ SM_ClearPath
    \/ SM_InvalidateCache

SettingsSpec == SettingsInit /\ [][SettingsNext]_vars

-----------------------------------------------------------------------------
(* Properties *)

ToolStageEvents == {"local_probe", "probe_spawn", "tool_meta_request",
                    "update_component", "tool_download_request", "taskkill",
                    "tool_download_complete", "size_validated", "rename_aside",
                    "installed"} \cup FsFaults \cup NetFaults

AppStageEvents == {"app_meta_request", "perform_app_update",
                   "app_download_request", "app_download_complete", "staged",
                   "script_written", "script_launched", "fault_app_cleanup"}

\* update_ytdlp has resolved the remote version
RemoteResolved == "tool_meta_request" \in events

\* update_ytdlp has made its decision
Decided == RemoteResolved /\ pc # "uy_decide"

\* update_ytdlp has returned
YtdlpReturned == pc \in {"uy_return", "done"} /\ RemoteResolved

\* update_component was called and has returned
ComponentReturned ==
    "update_component" \in events /\ pc \in {"uy_return", "done"}

\* C1: once perform_app_update has returned success with requires_restart
\* inside run_full_update_routine, the routine is returning (or has
\* returned) exactly that outcome, and nothing of the tool stage has
\* happened: no local probe, no tool metadata request, no tool download.
C1_RestartShortCircuits ==
    (entry = "routine" /\ pa_result.returned
        /\ pa_result.success /\ pa_result.requires_restart)
    => /\ pc \in {"app_result", "done"}
       /\ events \cap ToolStageEvents = {}
       /\ pc = "done" => result = UpdateResult(TRUE, TRUE)

C1_Witness ==
    /\ entry = "routine"
    /\ pc = "done"
    /\ "script_launched" \in events
    /\ pa_result = UpdateResult(TRUE, TRUE)
    /\ result.requires_restart

\* C2: in a run of run_full_update_routine where the tool binary exists
\* and the remote resolver answered unavailable, the installed binary is
\* never touched (update_component is not called, nothing is downloaded,
\* killed or moved) and the routine returns success.
C2_UnavailableKeepsInstall ==
    (entry = "routine" /\ RemoteResolved /\ file_exists /\ ~Truthy(remote_info))
    => /\ fs["target"] = Installed
       /\ events \cap {"update_component", "tool_download_request", "taskkill"} = {}
       /\ pc = "done" => (result.returned /\ result.success)

C2_Witness ==
    /\ entry = "routine"
    /\ pc = "done"
    /\ file_exists
    /\ TruthyStr(local_ver)
    /\ RemoteResolved
    /\ ~remote_info.some
    /\ fs["target"] = Installed
    /\ result = UpdateResult(TRUE, FALSE)

\* C3: when update_component has returned, the target holds either the
\* complete new artifact (and True was returned) or the file it held
\* before the call.
C3_TargetUpdatedOrUntouched ==
    ComponentReturned
    => \/ uc_ret /\ fs["target"] = File("tool_payload", response.size)
       \/ fs["target"] = target_before

\* C4: a downloaded artifact below the threshold makes update_component
\* return False with the pre-existing target untouched; an artifact of
\* exactly the threshold size or more passes the validation.
C4_SizeThreshold ==
    ("tool_download_complete" \in events)
    => /\ ("size_validated" \in events) <=> (response.size >= MinSize)
       /\ (response.size < MinSize)
            => /\ fs["target"] = target_before
               /\ "taskkill" \notin events
               /\ pc \in {"uc_fail", "uy_return", "done"}
               /\ ComponentReturned => ~uc_ret

C4_Witness ==
    /\ ComponentReturned
    /\ "tool_download_complete" \in events
    /\ response.size = MinSize - 1
    /\ target_before = Installed
    /\ fs["target"] = Installed
    /\ ~uc_ret

\* C5: when the tool binary is absent, update_ytdlp always decides "needs
\* update" and calls update_component, whatever the remote resolver
\* answered and whatever the force flag is.
C5_AbsentAlwaysUpdates ==
    (Decided /\ ~file_exists) => "update_component" \in events

C5_Witness ==
    /\ Decided
    /\ ~file_exists
    /\ ~force
    /\ ~remote_info.some
    /\ "update_component" \in events

\* C6 as claimed: binary present and remote unavailable give "no update"
\* and True, whatever the force flag is.
C6_Original ==
    (Decided /\ file_exists /\ ~Truthy(remote_info))
    => /\ "update_component" \notin events
       /\ YtdlpReturned => uy_ret

\* C6 amended: binary present, force not set and remote unavailable give
\* "no update": update_component is not called and True is returned,
\* whatever the local probe returned.
C6_Amended ==
    (Decided /\ file_exists /\ ~force /\ ~Truthy(remote_info))
    => /\ "update_component" \notin events
       /\ pc \in {"uy_return", "done"}
       /\ uy_ret

C6_Witness ==
    /\ entry = "ytdlp"
    /\ pc = "done"
    /\ file_exists
    /\ ~force
    /\ ~TruthyStr(local_ver)
    /\ RemoteResolved
    /\ ~Truthy(remote_info)
    /\ uy_ret

\* C7: binary present, force not set, local version and remote descriptor
\* both known: update_component is called exactly when the comparison says
\* local OLDER; on EQUAL or NEWER update_ytdlp returns True and no download
\* request is issued.
C7_UpdateIffOlder ==
    (Decided /\ file_exists /\ ~force
        /\ TruthyStr(local_ver) /\ Truthy(remote_info))
    => LET c == compare_versions(local_ver.v, remote_info.version)
       IN  /\ ("update_component" \in events) <=> (c = -1)
           /\ (c \in {0, 1})
                => /\ "tool_download_request" \notin events
                   /\ pc \in {"uy_return", "done"}
                   /\ uy_ret

C7_Witness ==
    /\ Decided
    /\ file_exists
    /\ ~force
    /\ local_ver = Some(v1_10)
    /\ remote_info.some
    /\ remote_info.version = v1_10_0
    /\ "update_component" \notin events
    /\ pc = "done"
    /\ uy_ret

\* C8: binary present, force not set and the local probe returned absent:
\* no update is performed and True is returned, also when the remote
\* resolver returned a valid descriptor.
C8_LocalUnknownKeeps ==
    (Decided /\ file_exists /\ ~force /\ ~TruthyStr(local_ver))
    => /\ "update_component" \notin events
       /\ fs["target"] = Installed
       /\ pc \in {"uy_return", "done"}
       /\ uy_ret

C8_Witness ==
    /\ Decided
    /\ file_exists
    /\ ~force
    /\ ~local_ver.some
    /\ Truthy(remote_info)
    /\ pc = "done"
    /\ uy_ret

\* C9: when perform_app_update returned success=false, the routine goes on
\* to the tool stage, and what it finally returns is the tool stage's
\* result with requires_restart=false.
C9_AppFailureFallsThrough ==
    (entry = "routine" /\ pa_result.returned /\ ~pa_result.success)
    => /\ ~result.requires_restart
       /\ pc = "done"
            => /\ "local_probe" \in events
               /\ RemoteResolved
               /\ result = UpdateResult(uy_ret, FALSE)

C9_Witness ==
    /\ entry = "routine"
    /\ pc = "done"
    /\ pa_result = UpdateResult(FALSE, FALSE)
    /\ "update_component" \in events
    /\ result = UpdateResult(TRUE, FALSE)

\* C10: with skip_app_update set, or app_version_url empty or None, the app
\* stage does not run: no metadata request, no call of perform_app_update,
\* no script written or launched, and requires_restart is never true.
C10_AppStageSkipped ==
    (entry = "routine" /\ (skip_app_update \/ app_version_url \in {"none", "empty"}))
    => /\ events \cap AppStageEvents = {}
       /\ ~pa_result.returned
       /\ ~Exists(fs, "batch")
       /\ ~result.requires_restart
       /\ pc \notin {"check_app", "pa_request", "pa_open", "pa_chunk",
                     "pa_extract", "pa_stage", "pa_write", "pa_launch",
                     "pa_fail", "app_result"}

C10_Witness ==
    /\ entry = "routine"
    /\ skip_app_update
    /\ app_version_url = "url"
    /\ pc = "done"
    /\ result.returned

\* the artifact the tool download delivers, once it is installed
NewArtifact == File("tool_payload", response.size)

\* the preconditions of the end-to-end scenario of C11: a run of the routine
\* that has ended, without perform_app_update, with the tool binary absent,
\* a valid remote descriptor, a delivered body of at least the threshold
\* size and no filesystem failure
C11_Scenario ==
    /\ entry = "routine"
    /\ pc = "done"
    /\ "perform_app_update" \notin events
    /\ "local_probe" \in events
    /\ ~file_exists
    /\ Truthy(remote_info)
    /\ "tool_download_complete" \in events
    /\ response.size >= MinSize
    /\ events \cap FsFaults = {}

\* C11: when the tool binary is absent, the remote resolver returns a valid
\* descriptor and the download delivers an artifact of at least the
\* threshold size with no filesystem failure, run_full_update_routine (app
\* stage skipped or reporting no app update) ends with the new artifact at
\* the target path, the temp file gone, and the outcome success=true,
\* requires_restart=false.
C11_AbsentInstallsEndToEnd ==
    C11_Scenario =>
        /\ result = UpdateResult(TRUE, FALSE)
        /\ fs["target"] = NewArtifact
        /\ ~Exists(fs, "temp")

C11_Witness ==
    /\ C11_Scenario
    /\ "installed" \in events
    /\ fs["target"] = NewArtifact

\* both ways of removing the old target have failed
LockedBothFailed == {"fault_remove_locked", "fault_kill_remove"} \subseteq events

\* the swap has completed with the old file set aside
SwapCompletedAside ==
    /\ uc_ret
    /\ fs["target"] = NewArtifact
    /\ fs["old"] = target_before

\* C12 as stated: when removing the old target fails because the file is in
\* use and the forced termination followed by a second removal also fails,
\* the old file is renamed aside to ".old" (replacing any stale ".old") and
\* update_component returns True with the new artifact at target_path.
C12_Original ==
    (ComponentReturned /\ LockedBothFailed) => SwapCompletedAside

\* C12 amended: in that situation the swap completes exactly when nothing
\* else fails, that is when the removal of a stale ".old", the rename-aside
\* and the final rename of the new artifact all succeed; when one of them
\* fails update_component returns False.
C12_Amended ==
    (ComponentReturned /\ LockedBothFailed) =>
        IF events \cap FsFaults = {"fault_remove_locked", "fault_kill_remove"}
        THEN SwapCompletedAside
        ELSE ~uc_ret

\* the rename-aside path was taken over a stale ".old" and the swap completed
C12_Witness ==
    /\ ComponentReturned
    /\ LockedBothFailed
    /\ "rename_aside" \in events
    /\ SwapCompletedAside
    /\ target_before = Installed

\* C13 as stated: whenever update_component fails it returns False without
\* raising, and on return the temp artifact no longer exists.
C13_Original ==
    /\ "update_component" \in events => pc # "raised"
    /\ (ComponentReturned /\ ~uc_ret) => ~Exists(fs, "temp")

\* C13 amended: whenever update_component fails it returns False without
\* raising, and on return the temp artifact exists only if the handler's
\* own removal of it failed (that error is swallowed).
C13_Amended ==
    /\ "update_component" \in events => pc # "raised"
    /\ (ComponentReturned /\ ~uc_ret) =>
          (Exists(fs, "temp") <=> "fault_cleanup" \in events)

\* a failure after the temp file was written, cleaned up on return
C13_Witness ==
    /\ ComponentReturned
    /\ ~uc_ret
    /\ "fault_write" \in events
    /\ downloaded > 0
    /\ ~Exists(fs, "temp")

\* perform_app_update has returned a failure
AppUpdateFailed == pa_result.returned /\ ~pa_result.success

\* C14: whenever perform_app_update fails at any stage it returns
\* success=false and requires_restart=false without raising, and none of
\* its partial artifacts remain: the downloaded payload under its temp name
\* or its staged name, the extract directory, the relaunch script.  Stated
\* here for the runs in which every removal of the handler succeeds.
C14_NoArtifactsRemain ==
    /\ "perform_app_update" \in events /\ ~pa_result.returned => pc # "raised"
    /\ (AppUpdateFailed /\ "fault_app_cleanup" \notin events) =>
          /\ pa_result = UpdateResult(FALSE, FALSE)
          /\ \A p \in {"download_temp", "new_app", "extract_dir", "batch"} :
                ~Exists(fs, p)

\* the positions of the worker after a download: validated payload in hand
PostDownloadPcs ==
    {"uc_swap", "uc_kill", "uc_aside", "uc_install",
     "pa_extract", "pa_stage", "pa_write", "pa_launch"}

\* C15: when the user requests a stop while a streaming download of an
\* update attempt is in progress, the worker aborts the download at the next
\* chunk or stage boundary and performs no later swap: it never goes on to
\* the steps that follow a download, and no artifact is installed.
C15_StopAbortsDownload ==
    stopped = "download" =>
        /\ pc \notin PostDownloadPcs
        /\ "installed" \notin events
        /\ "script_launched" \notin events

\* C16: at most one update attempt (one worker executing
\* run_full_update_routine) is in flight at any time, for every sequence of
\* Update and Stop button events and every interleaving with the worker's
\* completion.
C16_AtMostOneInFlight == Cardinality(InFlight) <= 1

\* the positions of the worker inside the host-app stage
AppStagePcs ==
    {"check_app", "pa_request", "pa_open", "pa_chunk", "pa_extract",
     "pa_stage", "pa_write", "pa_launch", "pa_fail", "app_result"}

\* a download is in progress from its request to the end of its stream or
\* to the return of the function that makes it
AppDownloadInProgress ==
    /\ "app_download_request" \in events
    /\ "app_download_complete" \notin events
    /\ ~pa_result.returned

ToolDownloadInProgress ==
    /\ "tool_download_request" \in events
    /\ "tool_download_complete" \notin events
    /\ ~ComponentReturned

\* C17: within one run of run_full_update_routine the two stages are
\* strictly sequential: once any action of the tool stage has happened no
\* action of the host-app stage happens any more (and the worker is not in
\* the host-app stage), and the host-app download and the tool download are
\* never in progress at the same time.
C17_StagesSequential ==
    /\ [][(entry = "routine" /\ events \cap ToolStageEvents # {}) =>
             events' \cap AppStageEvents = events \cap AppStageEvents]_vars
    /\ []((entry = "routine" /\ events \cap ToolStageEvents # {}) =>
             pc \notin AppStagePcs)
    /\ [](~(AppDownloadInProgress /\ ToolDownloadInProgress))

\* a run in which a failed host-app download was followed by a tool download
C17_Witness ==
    /\ entry = "routine"
    /\ "app_download_request" \in events
    /\ "tool_download_request" \in events
    /\ pc = "uc_chunk"

\* C18: run_full_update_routine always terminates by returning an
\* UpdateResult and never raises, whatever fails among the metadata
\* requests, the payload downloads, the local version probe, the filesystem
\* operations and the script launch.
C18_AlwaysReturns ==
    /\ [](pc # "raised")
    /\ (entry = "routine") ~> (pc = "done" /\ result.returned)

\* the routine has returned after failures in both stages
C18_Witness ==
    /\ entry = "routine"
    /\ pc = "done"
    /\ result = UpdateResult(FALSE, FALSE)
    /\ AppUpdateFailed
    /\ events \cap FsFaults # {}

\* the metadata request of a resolver failed or its document is malformed
MetaFailed(out, field) == out.kind # "ok" \/ field = <<>>

\* C19: get_remote_ytdlp_version and check_app_update never raise: on a
\* network failure, a timeout, a non-2xx status (a 403 with no quota left
\* included) or a malformed payload (not JSON, or without the tag/version
\* field) the caller gets None or a falsy descriptor, never a truthy one.
C19_ResolversNeverRaise ==
    /\ (fn = "get_remote_ytdlp_version" /\ fn_out.returned) =>
          /\ ~fn_out.raised
          /\ MetaFailed(fn_in.out, fn_in.out.tag) => ~Truthy(fn_out.value)
    /\ (fn = "check_app_update" /\ fn_out.returned) =>
          /\ ~fn_out.raised
          /\ MetaFailed(fn_in.out, fn_in.out.version) => ~Truthy(fn_out.value)

\* a resolver has returned on a document that is not JSON
C19_Witness ==
    /\ fn = "check_app_update"
    /\ fn_out.returned
    /\ fn_in.out.kind = "bad_json"
    /\ ~Truthy(fn_out.value)

\* s is t without its leading and trailing blanks, and is not empty
IsTrimmedOf(s, t) ==
    /\ s # <<>>
    /\ ~IsSpace(s[1])
    /\ ~IsSpace(s[Len(s)])
    /\ \E i \in 1..Len(t) :
          /\ SubSeq(t, i, i + Len(s) - 1) = s
          /\ \A j \in 1..Len(t) : (j < i \/ j > i + Len(s) - 1) => IsSpace(t[j])

\* C20: get_local_ytdlp_version returns absent without spawning a process
\* when the binary file does not exist; when it exists it spawns the binary
\* at most once, returns absent (never raising) on timeout, spawn failure,
\* non-zero exit code or empty output, and returns the trimmed standard
\* output only when the exit code is 0 and the output is not empty.
C20_LocalProbe ==
    (fn = "get_local_ytdlp_version" /\ fn_out.returned) =>
        LET exists == fn_in.exists
            out == fn_in.out
            good == out.kind = "exit" /\ out.returncode = 0 /\ out.stdout # <<>>
        IN  /\ ~fn_out.raised
            /\ fn_out.spawns <= 1
            /\ ~exists => (fn_out.spawns = 0 /\ ~fn_out.value.some)
            /\ (exists /\ ~good) => ~fn_out.value.some
            /\ fn_out.value.some =>
                  (exists /\ good /\ IsTrimmedOf(fn_out.value.v, out.stdout))

\* the probe returned the trimmed output of a run that exited with 0
C20_Witness ==
    /\ fn = "get_local_ytdlp_version"
    /\ fn_out.returned
    /\ fn_in.out.stdout = v1_9_0 \o <<" ">>
    /\ fn_out.value = Some(v1_9_0)
    /\ fn_out.spawns = 1

-----------------------------------------------------------------------------
(* compare_versions *)

Compared == fn = "compare_versions" /\ fn_out.returned

\* the integer a token stands for at position k of a token list: its number,
\* 0 for a word, 0 past the end of the list and for an appended ".0" segment
TokenAt(toks, k) == IF k <= Len(toks) THEN toks[k].val ELSE 0

AllNumeric(toks) == \A i \in 1..Len(toks) : toks[i].num

\* the longest list the generated strings stand for
Positions == 1..(MaxTokens + MaxZeros)

\* the first position where the two token lists differ has the smaller
\* (sign = -1) or the larger (sign = 1) integer on the local side
FirstDifference(lt, rt, sign) ==
    \E k \in Positions :
        /\ \A j \in 1..(k - 1) : TokenAt(lt, j) = TokenAt(rt, j)
        /\ IF sign = -1 THEN TokenAt(lt, k) < TokenAt(rt, k)
                        ELSE TokenAt(lt, k) > TokenAt(rt, k)

\* C21: compare_versions(x, x) is EQUAL (0) for every version string x
C21_Reflexive ==
    (Compared /\ fn_in.local = fn_in.remote) => fn_out.value = 0

C21_Witness ==
    /\ Compared
    /\ fn_in.local = fn_in.remote
    /\ fn_in.local = <<"9", ".", "1", "0">>
    /\ fn_out.value = 0

\* C22: two versions whose tokens are all numbers are compared as integers
\* token by token: the first position where the integers differ decides, so
\* "0.9" is OLDER than "0.10" though it is the larger string
C22_NumericTokens ==
    (Compared /\ AllNumeric(fn_in.ltoks) /\ AllNumeric(fn_in.rtoks)) =>
        /\ fn_out.value = -1 <=> FirstDifference(fn_in.ltoks, fn_in.rtoks, -1)
        /\ fn_out.value = 1 <=> FirstDifference(fn_in.ltoks, fn_in.rtoks, 1)

C22_Witness ==
    /\ Compared
    /\ fn_in.local = <<"0", ".", "9">>
    /\ fn_in.remote = <<"0", ".", "1", "0">>
    /\ fn_out.value = -1
    /\ fn_out.swapped = 1

\* C23: a version compares EQUAL to the same version written with a leading
\* "v" or "V" and/or with any number of ".0" segments appended
C23_PrefixAndTrailingZeros ==
    (Compared /\ fn_in.rtoks = fn_in.ltoks /\ fn_in.deco.sep = ".") =>
        fn_out.value = 0 /\ fn_out.swapped = 0

C23_Witness ==
    /\ Compared
    /\ fn_in.local = <<"1", "0", ".", "9">>
    /\ fn_in.remote = <<"v", "1", "0", ".", "9", ".", "0", ".", "0">>
    /\ fn_out.value = 0

\* C24: a token that is not a number counts as the integer 0 wherever it
\* stands and whatever separator precedes it, and the comparison still
\* returns: "9-b" is EQUAL to "9.0" and to "9"
C24_NonNumericIsZero ==
    (Compared /\ ~(AllNumeric(fn_in.ltoks) /\ AllNumeric(fn_in.rtoks))) =>
        /\ fn_out.value \in {-1, 0, 1}
        /\ fn_out.value = -1 <=> FirstDifference(fn_in.ltoks, fn_in.rtoks, -1)
        /\ fn_out.value = 1 <=> FirstDifference(fn_in.ltoks, fn_in.rtoks, 1)

C24_Witness ==
    /\ Compared
    /\ fn_in.local = <<"9", ".", "0">>
    /\ fn_in.remote = <<"9", "-", "b">>
    /\ fn_out.value = 0

ChainCompared == fn = "compare_versions_chain" /\ fn_out.returned

\* C25: compare_versions orders the version strings: every call returns one
\* of OLDER, EQUAL, NEWER; compare(a, b) is OLDER exactly when compare(b, a)
\* is NEWER (and EQUAL exactly when it is EQUAL); and the order is transitive
C25_TotalOrder ==
    /\ Compared =>
          /\ fn_out.value \in {-1, 0, 1}
          /\ fn_out.swapped = 0 - fn_out.value
    /\ ChainCompared =>
          /\ {fn_out.ab, fn_out.bc, fn_out.ac} \subseteq {-1, 0, 1}
          /\ (fn_out.ab <= 0 /\ fn_out.bc <= 0) => fn_out.ac <= 0
          /\ (fn_out.ab <= 0 /\ fn_out.bc <= 0 /\ fn_out.ac = 0) =>
                (fn_out.ab = 0 /\ fn_out.bc = 0)

C25_Witness ==
    /\ ChainCompared
    /\ fn_in.a = <<"9", ".", "9">>
    /\ fn_in.b = <<"9", ".", "1", "0">>
    /\ fn_in.c = <<"1", "0">>
    /\ fn_out.ab = -1 /\ fn_out.bc = -1 /\ fn_out.ac = -1

-----------------------------------------------------------------------------
(* update_ytdlp: the force rule *)

\* C26: with the binary present and force set, update_ytdlp always calls
\* update_component, whatever the local probe and the remote resolver
\* returned, an unavailable remote included
C26_ForceAlwaysDownloads ==
    (Decided /\ entry = "ytdlp" /\ file_exists /\ force) =>
        "update_component" \in events

C26_Witness ==
    /\ Decided
    /\ entry = "ytdlp"
    /\ file_exists
    /\ force
    /\ ~Truthy(remote_info)
    /\ ~TruthyStr(local_ver)
    /\ "update_component" \in events
    /\ "installed" \in events

-----------------------------------------------------------------------------
(* perform_app_update: the order of a successful run *)

Launched == "script_launched" \in events

\* C27: in perform_app_update the payload is downloaded completely, then
\* extracted (archive) or staged and size-validated (raw), then the script is
\* written completely, then launched once, and the launching step itself
\* returns (success, requires_restart) = (true, true) without a step that
\* waits for the script; requires_restart is true only if the script was
\* launched
C27_SuccessOrder ==
    /\ [][("app_download_complete" \in events' /\ "app_download_complete" \notin events)
            => /\ downloaded = response.size
               /\ fs["download_temp"].size = response.size
               /\ ~("script_written" \in events \/ Launched)]_vars
    /\ [][("script_written" \in events' /\ "script_written" \notin events)
            => /\ "app_download_complete" \in events
               /\ ~Launched
               /\ \/ source_dir # "none" /\ Exists(fs, "extract_dir")
                  \/ /\ "staged" \in events
                     /\ Exists(fs, "new_app")
                     /\ fs["new_app"].size >= AppMinSize]_vars
    /\ [](Launched => "script_written" \in events /\ fs["batch"] = File("script", 1))
    /\ [][Launched => (pc' # "pa_launch" /\ Launched')]_vars
    /\ [][(Launched' /\ ~Launched)
            => (pc' = "app_result" /\ pa_result' = UpdateResult(TRUE, TRUE))]_vars
    /\ []((pa_result.returned /\ pa_result.success)
            => (Launched /\ pa_result.requires_restart))
    /\ [](pa_result.requires_restart => Launched)

C27_Witness ==
    /\ Launched
    /\ pa_result = UpdateResult(TRUE, TRUE)
    /\ "staged" \in events
    /\ response.kind = "raw"
    /\ pc = "app_result"

-----------------------------------------------------------------------------
(* The relaunch script: order of its steps and what it starts *)

ReplaceOps == {"del_app", "move_new", "robocopy", "xcopy"}

\* in trace t, every op of kind `later` has an op of kind `earlier` before it
Precedes(t, earlier, later) ==
    \A i \in DOMAIN t :
        t[i] \in later => \E j \in 1..(i - 1) : t[j] \in earlier

\* nothing is executed after the script has deleted itself
SelfDeleteLast(t) == \A i \in DOMAIN t : t[i] = "del_self" => i = Len(t)

ScriptFinished == sc_kind # "none" /\ sc_ip = Len(Script(sc_kind)) + 1

\* C28 as stated: in both scripts the order is wait, forced termination by
\* name, file replacement, launch with --post-update, self-delete last
C28_Original ==
    /\ Precedes(sc_trace, {"timeout"}, {"taskkill"})
    /\ Precedes(sc_trace, {"taskkill"}, ReplaceOps)
    /\ Precedes(sc_trace, ReplaceOps, {"start_post_update"})
    /\ SelfDeleteLast(sc_trace)
    /\ ScriptFinished => \E i \in DOMAIN sc_trace : sc_trace[i] = "taskkill"

\* C28 amended: the archive script runs in the contract order.  The raw
\* script waits, then deletes the old executable, and attempts the forced
\* termination only when the file still exists after that delete, followed
\* by a second delete; then it moves the new build into place.  In both, no
\* file is replaced before the wait, the executable is started only after the
\* replacement step and only if app_path exists, and the self-delete is last.
C28_Amended ==
    /\ Precedes(sc_trace, {"timeout"}, ReplaceOps \cup {"taskkill"})
    /\ sc_kind = "archive" =>
          /\ Precedes(sc_trace, {"taskkill"}, ReplaceOps)
          /\ Precedes(sc_trace, {"robocopy"}, {"xcopy", "start_post_update"})
          /\ ScriptFinished => \E i \in DOMAIN sc_trace : sc_trace[i] = "taskkill"
    /\ sc_kind = "raw" =>
          /\ Precedes(sc_trace, {"del_app"}, {"taskkill", "move_new"})
          /\ Precedes(sc_trace, {"move_new"}, {"start_post_update"})
          /\ \A i \in DOMAIN sc_trace :
                (sc_trace[i] = "taskkill" /\ i + 2 <= Len(sc_trace))
                    => sc_trace[i + 2] = "del_app"
    /\ (\E i \in DOMAIN sc_trace : sc_trace[i] = "start_post_update")
          => relaunched # "none"
    /\ SelfDeleteLast(sc_trace)
    /\ ScriptFinished => sc_trace[Len(sc_trace)] = "del_self" /\ ~script_file

C28_Witness ==
    /\ ScriptFinished
    /\ sc_kind = "raw"
    /\ sc_trace = <<"timeout", "del_app", "taskkill", "timeout", "del_app",
                    "move_new", "timeout", "start_post_update", "del_self">>
    /\ relaunched = "new"

\* C29: the executable the script starts with --post-update is the new build,
\* never the old one
C29_StartsNewBuildOnly == relaunched # "old"

-----------------------------------------------------------------------------
(* perform_app_update: the executable of an archive *)

Executables == {"infinity_exe", "other_exe"}

\* entry k is the first entry of the tree, in search order, with a name in names
IsFirstOf(tree, k, names) ==
    /\ k \in 1..Len(tree)
    /\ tree[k].name \in names
    /\ \A j \in 1..(k - 1) : tree[j].name \notin names

\* perform_app_update has extracted an archive and found its executable
ArchiveExtracted == pc \in {"pa_write", "pa_launch"} /\ response.kind = "zip"

\* C30: of an archive, the executable with the application's name is
\* selected wherever it lies in the tree, and the first executable found only
\* when no executable has that name; the script's copy source is the
\* directory of the selected executable; an archive without an executable
\* makes the update fail before a script is written
C30_ExecutableSelection ==
    /\ ArchiveExtracted =>
          \E k \in 1..Len(response.tree) :
              /\ source_dir = response.tree[k].dir
              /\ IF \E i \in 1..Len(response.tree) :
                        response.tree[i].name = "infinity_exe"
                 THEN IsFirstOf(response.tree, k, {"infinity_exe"})
                 ELSE IsFirstOf(response.tree, k, Executables)
    /\ (/\ pc = "app_result"
        /\ response.kind = "zip"
        /\ \A i \in 1..Len(response.tree) : response.tree[i].name \notin Executables)
          => /\ pa_result = UpdateResult(FALSE, FALSE)
             /\ "script_written" \notin events
             /\ ~Launched

C30_Witness ==
    /\ pc = "pa_launch"
    /\ response.kind = "zip"
    /\ response.tree = <<Entry("root", "other_exe"), Entry("sub", "infinity_exe")>>
    /\ source_dir = "sub"

-----------------------------------------------------------------------------
(* Version descriptors without a fetch location *)

\* check_app_update announced a newer version without a download_url
AnnouncedWithoutUrl ==
    /\ "app_meta_request" \in events
    /\ app_update.some
    /\ app_update.version # <<>>
    /\ app_update.download_url = ""

\* C31: perform_app_update is never called with an empty download location,
\* and a version.json that announces a newer version with an empty or
\* missing download_url counts as "no update": perform_app_update is not
\* called and the routine goes on to the tool stage
C31_DescriptorNeedsUrl ==
    /\ [](("perform_app_update" \in events /\ pc \in AppStagePcs)
            => download_url # "")
    /\ [][("perform_app_update" \in events' /\ "perform_app_update" \notin events)
            => (download_url' # "" /\ Truthy(app_update'))]_vars
    /\ [](AnnouncedWithoutUrl =>
            /\ "perform_app_update" \notin events
            /\ pc \notin (AppStagePcs \ {"check_app"}))
    /\ [][(pc = "check_app" /\ AnnouncedWithoutUrl') => pc' = "tool_stage"]_vars

C31_Witness ==
    /\ AnnouncedWithoutUrl
    /\ entry = "routine"
    /\ app_update.version = v3_10
    /\ pc = "done"
    /\ "tool_meta_request" \in events

-----------------------------------------------------------------------------
(* update_component: progress reports of the streaming download *)

Streaming == fn = "update_component"

\* C32: while update_component streams, one progress value is reported for
\* every chunk written (besides the 5.0 before the loop and the 70.0 after
\* it), and every value reported lies within 0..100, whatever Content-Length
\* header came with the body
C32_ProgressPerChunkInRange ==
    Streaming =>
        /\ Len(fn_out.reports) =
              1 + fn_out.chunks + (IF fn_out.returned THEN 1 ELSE 0)
        /\ \A i \in DOMAIN fn_out.reports :
              /\ 0 <= fn_out.reports[i].num
              /\ fn_out.reports[i].num <= 100 * fn_out.reports[i].den

-----------------------------------------------------------------------------
(* perform_app_update and the running executable *)

\* C33: perform_app_update never deletes, renames or writes app_path,
\* whether it succeeds or fails: the file there stays the running build
\* through every step of the function
C33_AppPathUntouched ==
    /\ [][(pc \in AppStagePcs) => ((fs')["app"] = fs["app"])]_vars
    /\ []("perform_app_update" \in events => fs["app"] = AppExe)

C33_Witness ==
    /\ pc = "app_result"
    /\ pa_result = UpdateResult(FALSE, FALSE)
    /\ "script_written" \in events
    /\ ~Exists(fs, "batch")
    /\ fs["app"] = AppExe

-----------------------------------------------------------------------------
(* update_ytdlp: where the download comes from *)

\* the update was triggered by the version comparison
TriggeredByComparison ==
    /\ file_exists
    /\ ~force
    /\ TruthyStr(local_ver)
    /\ Truthy(remote_info)
    /\ compare_versions(local_ver.v, remote_info.version) < 0

\* C34: update_ytdlp downloads from the descriptor's fetch location exactly
\* when the version comparison triggered the update; an update triggered by
\* an absent binary or by force downloads from the fixed latest-release URL,
\* even when the resolver returned a descriptor
C34_DownloadSource ==
    (Decided /\ "update_component" \in events) =>
        /\ download_url \in {DEFAULT_URL, remote_info.download_url}
        /\ download_url # DEFAULT_URL <=> TriggeredByComparison
        /\ TriggeredByComparison => download_url = remote_info.download_url

C34_Witness ==
    /\ Decided
    /\ "update_component" \in events
    /\ ~file_exists
    /\ Truthy(remote_info)
    /\ remote_info.download_url = "asset_url"
    /\ download_url = DEFAULT_URL

-----------------------------------------------------------------------------
(* check_ytdlp_update against update_ytdlp *)

\* C35: check_ytdlp_update reports needs_update exactly when update_ytdlp
\* with force=False downloads, for every combination of binary present or
\* absent, local probe outcome and remote resolver outcome
C35_CheckAgreesWithUpdate ==
    (fn = "check_ytdlp_update" /\ fn_out.returned) =>
        (fn_out.needs_update <=> fn_out.downloads)


\* C36: a media download (a running yt-dlp subprocess started by the download
\* thread) and an update thread inside run_full_update_routine are never
\* active in the same state, whatever the Download, Update and Stop clicks
\* and the interleaving with the threads.
C36_NoDownloadDuringUpdate ==
    ~(proc = "running" /\ \E k \in DOMAIN workers : workers[k] = "routine")

\* the download thread has returned from download() after a Stop that arrived
\* while the download was in progress
StoppedDownloadReturned == stop_at # "none" /\ dl_result # "none"

\* C37: once Stop has been pressed during a download, the download's yt-dlp
\* subprocess is terminated or was never started, and download() does not
\* return success, wherever the download thread was when Stop arrived.
C37_StopEndsDownload ==
    StoppedDownloadReturned =>
        /\ dl_result # "success"
        /\ proc \in {"none", "terminated"}


\* what SettingsManager.load() returns when called in this state
Loaded == load(cache, settings_file)

\* C38: a save_path or clear_path call whose write fails (it returns False)
\* leaves the settings that load() returns as they were before the call.
C38_FailedSaveKeepsSettings ==
    [][((SM_SavePath \/ SM_ClearPath) /\ ~sm_ret'.ok) => Loaded' = Loaded]_vars

=============================================================================
